---- MODULE Spec2Model ----
(***************************************************************************)
(* Job application tracker: the local data model over browser storage.     *)
(*   - application store: load, legacy -> timeline migration, asynchronous *)
(*     write-back of migrated records (src/storage/applications.ts)        *)
(*   - preferences store: defensive per-field merge on load, and the       *)
(*     settings operations over it (src/storage/preferences.ts,            *)
(*     src/pages/SettingsPage.tsx)                                         *)
(*   - derived view: the filter predicate of the home page                 *)
(*     (src/pages/LandingPage.tsx)                                         *)
(* A JavaScript object is a TLA+ record whose DOMAIN is the set of its own *)
(* properties, so `'timeline' in app` is "timeline" \in DOMAIN app and an  *)
(* absent property of a stored preferences object is an absent field.      *)
(***************************************************************************)
EXTENDS Integers, Sequences, FiniteSets, TLC

VARIABLES
    \* ---- application store ----
    appStore,     \* localStorage[STORAGE_KEY]: [kind |-> absent | garbage | json, value]
    timers,       \* pending setTimeout(.., 0) write-backs: sequence of captured finalApp
    nextId,       \* generateId(): the next fresh identifier
    today,        \* new Date().toISOString().split('T')[0]
    loaded,       \* what the last top-level getApplications() returned
    loads,        \* number of top-level getApplications() calls so far
    migrations,   \* history: record id -> times migrateApplicationData ran on the stored record
    firstLens,    \* history: record id -> timeline length returned by the first load
    \* ---- migration as a function of one record ----
    rec,          \* the stored record handed to the operation
    out,          \* the record the operation returned
    op,           \* which operation produced out: "none" | "migrate" | "load"
    outTimers,    \* write-backs the operation scheduled
    \* ---- preferences ----
    prefStore,    \* localStorage[PREFERENCES_STORAGE_KEY]
    preferences,  \* the preferences held by the preferences store (usePreferencesStore)
    editingCustomField, \* SettingsPage state: id of the custom field being edited, or "none"
    ops,          \* number of settings operations so far
    \* ---- storage reads as functions of the stored text ----
    oppStore,     \* localStorage[OPPORTUNITIES_STORAGE_KEY]
    readOp,       \* which read ran: "none" | "applications" | "opportunities" | "preferences"
    readResult,   \* [threw, value] of that read
    \* ---- home page: derived view ----
    applications, \* the applications held by the applications store
    filters,      \* HomePageContent state: the Filters value
    filtered,     \* filteredApplications, recomputed when applications or filters change
    availableStatuses,  \* the status facet, recomputed when applications change
    availablePlatforms, \* the platform facet, recomputed when applications change
    \* ---- opportunities page: the apply flow ----
    opportunities, \* the opportunities held by the opportunities store
    applyPc,      \* handleApply: "idle" | "added" (application added, opportunity not yet deleted)
    applying,     \* the opportunity handleApply was called with
    converted,    \* history: the last conversion, [done, from, to, appended, firstId]
    jobs,         \* history: links of the captured jobs the user has not discarded
    \* ---- kanban view ----
    cards,        \* KanbanView props: the applications shown
    clock,        \* new Date(): [date, ms] the calendar day and the time since its midnight
    grouped,      \* the grouped memo: sequence of [status, items]
    renderedAt,   \* history: the value of clock when grouped was computed
    \* ---- components and their timers ----
    mounted,      \* component name -> the component is mounted
    nowMs,        \* the time, in milliseconds
    pendingTimers, \* the setTimeout / setInterval timers not yet cleared: [owner, kind, due, ..]
    afterUnmount, \* history: kinds of timer whose callback ran while the owner was unmounted
    \* ---- FiltersBar ----
    searchTerm,   \* FiltersBar state: the text of the search input
    lastSearchFromProps, \* lastSearchFromPropsRef.current
    lastChange,   \* history: the last change of searchTerm, [any, at, term, burst]
    lastCall,     \* history: onFiltersChange calls of the debounce, [count since lastChange, at, search]
    cleared,      \* history: Clear was pressed and the user has typed nothing since
    \* ---- GoogleSheetsSync, the opportunities polling, ATSSearch ----
    sheets,       \* GoogleSheetsSync state, the stored spreadsheet id, the requests in flight
    lastWrite,    \* history: the last out-of-band write of jobOpportunities, [any, at, notified]
    windowsOpened, \* history: number of window.open calls of handleSearch
    \* ---- suggestion backend: the captchas of one session ----
    captchas,     \* $_SESSION['captchas']: captcha id -> [answer, expiresAt]
    serverTime,   \* time(), in seconds
    captchaLog    \* history: [issued, posts, checked, last]: ids issued, POSTs made, ids a
                  \* POST has checked, and the last POST [id, outcome, rechecked]

storeVars == <<appStore, timers, loaded, loads, migrations, firstLens>>
clockVars == <<nextId, today>>
recVars == <<rec, out, op, outTimers>>
prefVars == <<prefStore, preferences, editingCustomField, ops>>
readVars == <<oppStore, readOp, readResult>>
viewVars == <<applications, filters, filtered, availableStatuses, availablePlatforms>>
applyVars == <<opportunities, applyPc, applying, converted, jobs>>
kanbanVars == <<cards, clock, grouped, renderedAt>>
runVars == <<mounted, nowMs, pendingTimers, afterUnmount>>
barVars == <<searchTerm, lastSearchFromProps, lastChange, lastCall, cleared>>
sheetVars == <<sheets>>
pollVars == <<lastWrite>>
atsVars == <<windowsOpened>>
captchaVars == <<captchas, serverTime, captchaLog>>
compVars == <<runVars, barVars, sheetVars, pollVars, atsVars, captchaVars>>
pageVars == <<applyVars, kanbanVars, compVars>>
vars == <<storeVars, clockVars, recVars, prefVars, readVars, viewVars, pageVars>>

-----------------------------------------------------------------------------
(* Bounds of the model *)
MaxLoads == 2
MaxOps == 4

-----------------------------------------------------------------------------
(* Values *)

\* the statuses of the form's select and of the status table, plus the soft-delete marker
Statuses == {"Applied", "Interviewing", "Offer", "Rejected", "Withdrawn", "Hold", "Deleted"}
AppDates == {"", "2024-01-01"}
IntDates == {"", "2024-02-01"}
Days == {"2024-03-01", "2024-03-02"}
NotesValues == {"Referred by Jane", "<img onerror=x>"}

\* generateId() of utils/id: a fresh identifier per call
generateId(n) == n

\* sanitizeObject(): strips unsafe markup from the free-text fields of a record
\* and leaves every other property as it is (utils/url)
sanitizeText(s) == IF s = "<img onerror=x>" THEN "<img>" ELSE s

sanitizeObject(app) ==
    [k \in DOMAIN app |->
        IF k \in {"notes", "description"} THEN sanitizeText(app[k]) ELSE app[k]]

-----------------------------------------------------------------------------
(* src/storage/applications.ts *)

mapStatusNoDefault(status) ==
    CASE status = "Applied" -> "application_submitted"
      [] status = "Interviewing" -> "technical_interview"
      [] status = "Offer" -> "offer"
      [] status = "Rejected" -> "rejected"
      [] status = "Withdrawn" -> "withdrawn"
      [] OTHER -> "custom"

mapStatusToStageType(status) ==
    CASE status = "Applied" -> "application_submitted"
      [] status = "Interviewing" -> "technical_interview"
      [] status = "Offer" -> "offer"
      [] status = "Rejected" -> "rejected"
      [] status = "Withdrawn" -> "withdrawn"
      [] OTHER -> "application_submitted"

isLegacyAlways(app) == TRUE

isLegacyOrEmptyTimeline(app) ==
    \/ ~("timeline" \in DOMAIN app)
    \/ app.timeline = << >>

isLegacyApplication(app) == ~("timeline" \in DOMAIN app)

\* number of generateId() calls one migration makes
idsUsed(legacyApp) ==
    LET n == (IF legacyApp.applicationDate # "" THEN 1 ELSE 0)
             + (IF legacyApp.interviewDate # "" THEN 1 ELSE 0)
    IN IF n = 0 THEN 1 ELSE n

migrateApplicationData(legacyApp, nid, tdy) ==
    LET submitted ==
            IF legacyApp.applicationDate # ""
            THEN << [id |-> generateId(nid), type |-> "application_submitted",
                     date |-> legacyApp.applicationDate, status |-> "completed"] >>
            ELSE << >>
        interview ==
            IF legacyApp.interviewDate # ""
            THEN << [id |-> generateId(nid + Len(submitted)),
                     type |-> mapStatusToStageType(legacyApp.status),
                     date |-> legacyApp.interviewDate, status |-> "scheduled"] >>
            ELSE << >>
        timeline == submitted \o interview
        fallback ==
            << [id |-> generateId(nid), type |-> "application_submitted",
                date |-> IF legacyApp.applicationDate # "" THEN legacyApp.applicationDate ELSE tdy,
                status |-> "completed"] >>
        final == IF Len(timeline) > 0 THEN timeline ELSE fallback
    IN [k \in DOMAIN legacyApp \cup {"timeline"} |->
            IF k = "timeline" THEN final ELSE legacyApp[k]]

\* the apps.map(...) callback of getApplications, over the whole array:
\* value = the processed array, scheduled = the finalApp each setTimeout captured
RECURSIVE processApps(_, _, _)
processApps(apps, nid, tdy) ==
    IF apps = << >>
    THEN [value |-> << >>, scheduled |-> << >>, nid |-> nid, migrated |-> {}]
    ELSE LET app == Head(apps)
             legacy == isLegacyApplication(app)
             finalApp == IF legacy THEN migrateApplicationData(app, nid, tdy) ELSE app
             rest == processApps(Tail(apps), IF legacy THEN nid + idsUsed(app) ELSE nid, tdy)
         IN [value |-> <<sanitizeObject(finalApp)>> \o rest.value,
             scheduled |-> (IF legacy THEN <<finalApp>> ELSE << >>) \o rest.scheduled,
             nid |-> rest.nid,
             migrated |-> (IF legacy THEN {app.id} ELSE {}) \cup rest.migrated]

\* the try block of getApplications: threw = an exception left the block
getApplicationsTry(store, nid, tdy) ==
    CASE store.kind \in {"absent", "empty"} ->
            [threw |-> FALSE, value |-> << >>, scheduled |-> << >>, nid |-> nid, migrated |-> {}]
      [] store.kind = "garbage" ->
            [threw |-> TRUE, value |-> << >>, scheduled |-> << >>, nid |-> nid, migrated |-> {}]
      [] store.kind = "json" /\ ~store.isArray ->
            [threw |-> FALSE, value |-> << >>, scheduled |-> << >>, nid |-> nid, migrated |-> {}]
      [] OTHER ->
            [threw |-> FALSE] @@ processApps(store.value, nid, tdy)

getApplicationsNoCatch(store, nid, tdy) == getApplicationsTry(store, nid, tdy)

getApplications(store, nid, tdy) ==
    LET r == getApplicationsTry(store, nid, tdy)
    IN IF r.threw THEN [r EXCEPT !.threw = FALSE, !.value = << >>] ELSE r

\* JSON.stringify of an array, then localStorage.setItem
saveApplications(apps) ==
    [kind |-> "json", isArray |-> TRUE, value |-> apps]

writeBackAppend(currentApps, finalApp) ==
    [i \in 1..Len(currentApps) |->
        IF currentApps[i].id = finalApp.id
        THEN [currentApps[i] EXCEPT !.timeline = @ \o finalApp.timeline]
        ELSE currentApps[i]]

\* (the write-back puts the record back as the nested load found it stored)
writeBackAsStored(currentApps, finalApp) ==
    [i \in 1..Len(currentApps) |->
        IF currentApps[i].id = finalApp.id
        THEN [k \in DOMAIN currentApps[i] \ {"timeline"} |-> currentApps[i][k]]
        ELSE currentApps[i]]

\* currentApps.map(a => a.id === finalApp.id ? finalApp : a)
writeBack(currentApps, finalApp) ==
    [i \in 1..Len(currentApps) |->
        IF currentApps[i].id = finalApp.id THEN finalApp ELSE currentApps[i]]

-----------------------------------------------------------------------------
(* src/utils/constants.ts *)

fieldDef(id, label, type, required) ==
    [id |-> id, label |-> label, type |-> type, required |-> required]

DEFAULT_FIELDS ==
    << fieldDef("position", "Position", "text", TRUE),
       fieldDef("company", "Company", "text", TRUE),
       fieldDef("status", "Status", "text", FALSE),
       fieldDef("applicationDate", "Application Date", "date", FALSE),
       fieldDef("timeline", "Timeline", "text", FALSE),
       fieldDef("notes", "Notes", "text", FALSE),
       fieldDef("link", "Link", "url", FALSE),
       fieldDef("platform", "Platform", "text", FALSE),
       fieldDef("salary", "Salary", "text", FALSE),
       fieldDef("contactName", "Contact", "text", FALSE),
       fieldDef("followUpDate", "Follow Up", "date", FALSE) >>

idsOf(fields) == [i \in 1..Len(fields) |-> fields[i].id]

isNotNotes(field) == field.id # "notes"

DEFAULT_PREFERENCES ==
    [enabledFields |-> idsOf(SelectSeq(DEFAULT_FIELDS, isNotNotes)),
     columnOrder |-> idsOf(DEFAULT_FIELDS),
     customFields |-> << >>,
     defaultView |-> "table",
     dateFormat |-> "YYYY-MM-DD",
     customInterviewEvents |-> << >>,
     atsSearch |->
        [roles |-> "\"customer success engineer\" OR \"customer success\" OR \"customer support\" OR \"technical support\"",
         keywords |-> "\"hiring\" OR \"apply\" OR \"open role\"",
         location |-> "\"remote\" OR \"work from home\""]]

-----------------------------------------------------------------------------
(* src/storage/preferences.ts *)

ViewTypes == {"table", "timeline", "kanban", "calendar"}
DateFormats == {"DD/MM/YYYY", "MM/DD/YYYY", "YYYY-MM-DD"}

has(parsed, k) == k \in DOMAIN parsed

\* a stored value of one field is usable
usable(parsed, k) ==
    /\ has(parsed, k)
    /\ k \in {"enabledFields", "columnOrder"} => Len(parsed[k]) > 0
    /\ k = "defaultView" => parsed[k] \in ViewTypes
    /\ k = "dateFormat" => parsed[k] \in DateFormats

mergeAllOrNothing(parsed) ==
    IF \A k \in DOMAIN DEFAULT_PREFERENCES : usable(parsed, k)
    THEN [k \in DOMAIN DEFAULT_PREFERENCES |-> parsed[k]]
    ELSE DEFAULT_PREFERENCES

\* "Merge with defaults to be resilient to schema changes"
mergeWithDefaults(parsed) ==
    [enabledFields |->
        IF has(parsed, "enabledFields") /\ Len(parsed.enabledFields) > 0
        THEN parsed.enabledFields ELSE DEFAULT_PREFERENCES.enabledFields,
     columnOrder |->
        IF has(parsed, "columnOrder") /\ Len(parsed.columnOrder) > 0
        THEN parsed.columnOrder ELSE DEFAULT_PREFERENCES.columnOrder,
     customFields |->
        IF has(parsed, "customFields")
        THEN parsed.customFields ELSE DEFAULT_PREFERENCES.customFields,
     defaultView |->
        IF has(parsed, "defaultView") /\ parsed.defaultView # "" /\ parsed.defaultView \in ViewTypes
        THEN parsed.defaultView ELSE DEFAULT_PREFERENCES.defaultView,
     dateFormat |->
        IF has(parsed, "dateFormat") /\ parsed.dateFormat # "" /\ parsed.dateFormat \in DateFormats
        THEN parsed.dateFormat ELSE DEFAULT_PREFERENCES.dateFormat,
     customInterviewEvents |->
        IF has(parsed, "customInterviewEvents")
        THEN parsed.customInterviewEvents ELSE DEFAULT_PREFERENCES.customInterviewEvents,
     atsSearch |->
        IF has(parsed, "atsSearch")
        THEN parsed.atsSearch ELSE DEFAULT_PREFERENCES.atsSearch]

\* the try block of getPreferences. A stored text is absent, the empty string,
\* unparsable, or JSON: null (reading a property of it throws), a primitive or
\* an array (no preference property), or an object with some of the properties.
getPreferencesTry(store) ==
    CASE store.kind \in {"absent", "empty"} -> [threw |-> FALSE, value |-> DEFAULT_PREFERENCES]
      [] store.kind = "garbage" -> [threw |-> TRUE, value |-> DEFAULT_PREFERENCES]
      [] store.kind = "json" /\ store.jsonType = "null" -> [threw |-> TRUE, value |-> DEFAULT_PREFERENCES]
      [] OTHER -> [threw |-> FALSE, value |-> mergeWithDefaults(store.value)]

getPreferences(store) ==
    LET r == getPreferencesTry(store)
    IN IF r.threw THEN [threw |-> FALSE, value |-> DEFAULT_PREFERENCES] ELSE r

\* JSON.stringify of the preferences object, then localStorage.setItem
savePreferences(prefs) == [kind |-> "json", jsonType |-> "object", value |-> prefs]

-----------------------------------------------------------------------------
(* src/storage/opportunities.ts *)

getOpportunitiesTry(store) ==
    CASE store.kind \in {"absent", "empty"} -> [threw |-> FALSE, value |-> << >>]
      [] store.kind = "garbage" -> [threw |-> TRUE, value |-> << >>]
      [] store.kind = "json" /\ ~store.isArray -> [threw |-> FALSE, value |-> << >>]
      [] OTHER -> [threw |-> FALSE,
                   value |-> [i \in 1..Len(store.value) |-> sanitizeObject(store.value[i])]]

getOpportunities(store) ==
    LET r == getOpportunitiesTry(store)
    IN IF r.threw THEN [threw |-> FALSE, value |-> << >>] ELSE r

saveOpportunities(opps) ==
    [kind |-> "json", isArray |-> TRUE, value |-> opps]

\* saveApplications / saveOpportunities with their try/catch: when
\* localStorage.setItem throws, the error is logged and the stored text stays
writeApplications(store, apps, setItemOk) ==
    IF setItemOk THEN saveApplications(apps) ELSE store

writeOpportunities(store, opps, setItemOk) ==
    IF setItemOk THEN saveOpportunities(opps) ELSE store

\* deleteOpportunity(id): read, filter, save
deleteOpportunity(store, id, setItemOk) ==
    LET others(opp) == opp.id # id
    IN writeOpportunities(store, SelectSeq(getOpportunities(store).value, others), setItemOk)

\* value || ''
orBlank(obj, k) == IF k \in DOMAIN obj THEN obj[k] ELSE ""

\* Array.prototype.join('\n')
RECURSIVE joinNewline(_)
joinNewline(lines) ==
    IF lines = << >> THEN ""
    ELSE IF Len(lines) = 1 THEN lines[1]
    ELSE lines[1] \o "\n" \o joinNewline(Tail(lines))

\* the additionalInfo array of convertOpportunityToApplication; no line is
\* collected unless the block is entered
additionalInfo(opportunity) ==
    LET given(k) == orBlank(opportunity, k) # ""
    IN IF given("location") \/ given("jobType")
       THEN (IF given("location") THEN <<"Location: " \o opportunity.location>> ELSE << >>)
            \o (IF given("jobType") THEN <<"Type: " \o opportunity.jobType>> ELSE << >>)
            \o (IF given("postedDate") THEN <<"Posted: " \o opportunity.postedDate>> ELSE << >>)
       ELSE << >>

\* (a conversion that leaves the timeline to be filled in later)
convertWithoutEvent(opportunity, nid, tdy) ==
    [id |-> generateId(nid), position |-> opportunity.position,
     company |-> opportunity.company, salary |-> orBlank(opportunity, "salary"),
     status |-> "Applied", applicationDate |-> tdy, interviewDate |-> "",
     timeline |-> << >>, notes |-> orBlank(opportunity, "description"),
     link |-> opportunity.link, platform |-> "LinkedIn", contactName |-> "",
     followUpDate |-> ""]

\* convertOpportunityToApplication(opportunity); it calls generateId() twice
convertOpportunityToApplication(opportunity, nid, tdy) ==
    LET now == tdy
        given(k) == orBlank(opportunity, k) # ""
        application ==
            [id |-> generateId(nid), position |-> opportunity.position,
             company |-> opportunity.company, salary |-> orBlank(opportunity, "salary"),
             status |-> "Applied", applicationDate |-> now, interviewDate |-> "",
             timeline |-> << [id |-> generateId(nid + 1), type |-> "application_submitted",
                              date |-> now, status |-> "completed"] >>,
             notes |-> orBlank(opportunity, "description"),
             link |-> opportunity.link, platform |-> "LinkedIn", contactName |-> "",
             followUpDate |-> ""]
    IN IF given("location") \/ given("jobType")
       THEN [application EXCEPT !.notes =
                IF application.notes # ""
                THEN application.notes \o "\n\n" \o joinNewline(additionalInfo(opportunity))
                ELSE joinNewline(additionalInfo(opportunity))]
       ELSE application

-----------------------------------------------------------------------------
(* Text: a string that is searched is the sequence of its characters *)

UpperCase == <<"A", "B", "C", "D", "E", "F", "G", "H", "I", "J", "K", "L", "M",
               "N", "O", "P", "Q", "R", "S", "T", "U", "V", "W", "X", "Y", "Z">>
LowerCase == <<"a", "b", "c", "d", "e", "f", "g", "h", "i", "j", "k", "l", "m",
               "n", "o", "p", "q", "r", "s", "t", "u", "v", "w", "x", "y", "z">>

lowerChar(c) ==
    IF \E i \in 1..Len(UpperCase) : UpperCase[i] = c
    THEN LowerCase[CHOOSE i \in 1..Len(UpperCase) : UpperCase[i] = c]
    ELSE c

\* String.prototype.toLowerCase
toLowerCase(t) == [i \in 1..Len(t) |-> lowerChar(t[i])]

\* String.prototype.trim
RECURSIVE trimStart(_)
trimStart(t) == IF t # << >> /\ Head(t) = " " THEN trimStart(Tail(t)) ELSE t

RECURSIVE trimEnd(_)
trimEnd(t) == IF t # << >> /\ t[Len(t)] = " " THEN trimEnd(SubSeq(t, 1, Len(t) - 1)) ELSE t

trim(t) == trimEnd(trimStart(t))

\* String.prototype.includes
includes(t, part) ==
    \E i \in 0..(Len(t) - Len(part)) : SubSeq(t, i + 1, i + Len(part)) = part

\* Array.prototype.join(' ')
RECURSIVE joinSpace(_)
joinSpace(parts) ==
    IF parts = << >> THEN << >>
    ELSE IF Len(parts) = 1 THEN parts[1]
    ELSE parts[1] \o <<" ">> \o joinSpace(Tail(parts))

\* value ?? ''
orEmpty(obj, k) == IF k \in DOMAIN obj THEN obj[k] ELSE << >>

\* the characters of the status and platform names that are sorted or prefixed
chars(s) ==
    CASE s = "" -> << >>
      [] s = "Applied" -> <<"A", "p", "p", "l", "i", "e", "d">>
      [] s = "Interviewing" -> <<"I", "n", "t", "e", "r", "v", "i", "e", "w", "i", "n", "g">>
      [] s = "Offer" -> <<"O", "f", "f", "e", "r">>
      [] s = "Rejected" -> <<"R", "e", "j", "e", "c", "t", "e", "d">>
      [] s = "Withdrawn" -> <<"W", "i", "t", "h", "d", "r", "a", "w", "n">>
      [] s = "Hold" -> <<"H", "o", "l", "d">>
      [] s = "Deleted" -> <<"D", "e", "l", "e", "t", "e", "d">>
      [] s = "Ghosted" -> <<"G", "h", "o", "s", "t", "e", "d">>
      [] s = "Unknown" -> <<"U", "n", "k", "n", "o", "w", "n">>
      [] s = "LinkedIn" -> <<"L", "i", "n", "k", "e", "d", "I", "n">>
      [] s = "Indeed" -> <<"I", "n", "d", "e", "e", "d">>
      [] s = "Archived" -> <<"A", "r", "c", "h", "i", "v", "e", "d">>

\* the characters in UTF-16 code unit order
CodeUnits == <<" ", "-">> \o UpperCase \o <<"_">> \o LowerCase

codeUnit(c) == CHOOSE i \in 1..Len(CodeUnits) : CodeUnits[i] = c

\* the letters in the order a collation puts them, case aside
Alphabet == <<" ", "_", "-">> \o LowerCase

\* the comparison of two sequences of numbers, item by item, a prefix first
RECURSIVE compareNums(_, _)
compareNums(x, y) ==
    IF x = << >> /\ y = << >> THEN 0
    ELSE IF x = << >> THEN -1
    ELSE IF y = << >> THEN 1
    ELSE IF Head(x) < Head(y) THEN -1
    ELSE IF Head(x) > Head(y) THEN 1
    ELSE compareNums(Tail(x), Tail(y))

\* the sort key of the default Array.prototype.sort(): the code units
unitKey(t) == [i \in 1..Len(t) |-> codeUnit(t[i])]

\* the sort key of String.prototype.localeCompare: the letters first, a lower
\* case letter before its upper case on a tie
localeKey(t) ==
    LET low == toLowerCase(t)
    IN [i \in 1..Len(t) |-> CHOOSE k \in 1..Len(Alphabet) : Alphabet[k] = low[i]]
       \o <<0>> \o [i \in 1..Len(t) |-> IF t[i] = low[i] THEN 0 ELSE 1]

\* Array.prototype.sort with a comparator that compares keys: items is a
\* sequence, key the function from an index of items to its key; the sort is
\* stable: a later item goes behind the earlier items it ties with.
RECURSIVE insertIndex(_, _, _)
insertIndex(sorted, i, key) ==
    IF sorted = << >> THEN <<i>>
    ELSE IF compareNums(key[i], key[Head(sorted)]) < 0 THEN <<i>> \o sorted
    ELSE <<Head(sorted)>> \o insertIndex(Tail(sorted), i, key)

RECURSIVE sortIndices(_, _)
sortIndices(n, key) ==
    IF n = 0 THEN << >> ELSE insertIndex(sortIndices(n - 1, key), n, key)

sortByKey(items, key) ==
    LET order == sortIndices(Len(items), key)
    IN [i \in 1..Len(items) |-> items[order[i]]]

\* parseLocalDate: the calendar day of a YYYY-MM-DD string, as a number that
\* orders days (utils/date)
parseLocalDate(d) ==
    CASE d = "2024-01-01" -> 20240101
      [] d = "2024-01-15" -> 20240115
      [] d = "2024-02-01" -> 20240201
      [] d = "2024-02-15" -> 20240215
      [] d = "2024-03-01" -> 20240301
      [] d = "2024-03-02" -> 20240302

-----------------------------------------------------------------------------
(* src/pages/LandingPage.tsx: HomePageContent *)

defaultFilters ==
    [search |-> << >>, status |-> "", statusInclude |-> << >>, statusExclude |-> << >>,
     platform |-> "", dateFrom |-> "", dateTo |-> ""]

member(s, x) == \E i \in 1..Len(s) : s[i] = x

\* (a search that compares the text as it was typed and stored)
searchMetadataCaseKept(app) ==
    LET eventStr(e) == orEmpty(e, "notes") \o <<" ">> \o orEmpty(e, "customTypeName")
                       \o <<" ">> \o orEmpty(e, "interviewerName")
        timelineStr ==
            IF "timeline" \in DOMAIN app
            THEN joinSpace([i \in 1..Len(app.timeline) |-> eventStr(app.timeline[i])])
            ELSE << >>
    IN orEmpty(app, "position") \o <<" ">> \o orEmpty(app, "company") \o <<" ">>
       \o orEmpty(app, "contactName") \o <<" ">> \o orEmpty(app, "notes")
       \o <<" ">> \o timelineStr

\* the searchable string pre-calculated for one application
searchMetadata(app) ==
    LET eventStr(e) == orEmpty(e, "notes") \o <<" ">> \o orEmpty(e, "customTypeName")
                       \o <<" ">> \o orEmpty(e, "interviewerName")
        timelineStr ==
            IF "timeline" \in DOMAIN app
            THEN joinSpace([i \in 1..Len(app.timeline) |-> eventStr(app.timeline[i])])
            ELSE << >>
    IN toLowerCase(orEmpty(app, "position") \o <<" ">> \o orEmpty(app, "company") \o <<" ">>
                   \o orEmpty(app, "contactName") \o <<" ">> \o orEmpty(app, "notes")
                   \o <<" ">> \o timelineStr)

isDeletedNever(app) == FALSE

\* if (app.status === 'Deleted') return false
isDeleted(app) == app.status = "Deleted"

\* (the include list deciding last)
matchesStatusIncludeLast(app, f) ==
    IF f.status # "" /\ Len(f.statusInclude) = 0 /\ Len(f.statusExclude) = 0
    THEN app.status = f.status
    ELSE LET excluded == Len(f.statusExclude) > 0 /\ member(f.statusExclude, app.status)
         IN IF Len(f.statusInclude) > 0 THEN member(f.statusInclude, app.status)
            ELSE ~excluded

\* (the legacy status applied whenever it is set)
matchesStatusLegacyFirst(app, f) ==
    IF f.status # ""
    THEN app.status = f.status
    ELSE LET included == IF Len(f.statusInclude) > 0 THEN member(f.statusInclude, app.status)
                         ELSE TRUE
         IN IF Len(f.statusExclude) > 0 /\ member(f.statusExclude, app.status)
            THEN FALSE ELSE included

matchesStatus(app, f) ==
    IF f.status # "" /\ Len(f.statusInclude) = 0 /\ Len(f.statusExclude) = 0
    THEN app.status = f.status
    ELSE LET included == IF Len(f.statusInclude) > 0 THEN member(f.statusInclude, app.status)
                         ELSE TRUE
         IN IF Len(f.statusExclude) > 0 /\ member(f.statusExclude, app.status)
            THEN FALSE ELSE included

matchesFilters(app, f) ==
    LET normalizedSearch == toLowerCase(trim(f.search))
        matchesSearch == IF normalizedSearch # << >>
                         THEN includes(searchMetadata(app), normalizedSearch) ELSE TRUE
        matchesPlatform == IF f.platform # "" THEN app.platform = f.platform ELSE TRUE
        matchesDateFrom ==
            IF f.dateFrom # ""
            THEN IF app.applicationDate # ""
                 THEN parseLocalDate(app.applicationDate) >= parseLocalDate(f.dateFrom)
                 ELSE FALSE
            ELSE TRUE
        matchesDateTo ==
            IF f.dateTo # ""
            THEN IF app.applicationDate # ""
                 THEN parseLocalDate(app.applicationDate) <= parseLocalDate(f.dateTo)
                 ELSE FALSE
            ELSE TRUE
    IN /\ ~isDeleted(app)
       /\ matchesSearch
       /\ matchesStatus(app, f)
       /\ matchesPlatform
       /\ matchesDateFrom
       /\ matchesDateTo

filteredApplications(apps, f) ==
    LET keep(app) == matchesFilters(app, f) IN SelectSeq(apps, keep)

\* Array.from(set): the distinct values in the order they were first added
RECURSIVE distinct(_)
distinct(s) ==
    IF s = << >> THEN << >>
    ELSE LET front == distinct(SubSeq(s, 1, Len(s) - 1))
         IN IF member(front, s[Len(s)]) THEN front ELSE Append(front, s[Len(s)])

\* Array.from(set).sort((a, b) => a.localeCompare(b))
sortLocale(values) ==
    sortByKey(values, [i \in 1..Len(values) |-> localeKey(chars(values[i]))])

\* if (app[k]) set.add(app[k]), over the applications in order
facetValues(apps, k) ==
    LET truthy(app) == k \in DOMAIN app /\ app[k] # ""
        kept == SelectSeq(apps, truthy)
    IN distinct([i \in 1..Len(kept) |-> kept[i][k]])

\* (the statuses of the applications that are not deleted)
statusFacetShown(apps) ==
    LET shown(app) == ~isDeleted(app) IN sortLocale(facetValues(SelectSeq(apps, shown), "status"))

\* availableStatuses of the fused memo
statusFacet(apps) == sortLocale(facetValues(apps, "status"))

\* availablePlatforms of the fused memo
platformFacet(apps) == sortLocale(facetValues(apps, "platform"))

-----------------------------------------------------------------------------
(* src/components/KanbanView.tsx *)

DEFAULT_STATUS_ORDER == <<"Applied", "Interviewing", "Offer", "Rejected", "Withdrawn", "Hold">>

T_Unknown == chars("Unknown")
T_InterviewingDash == chars("Interviewing") \o <<" ", "-", " ">>

\* t(`insights.interviewTypes.${type}`): the display label of an event type
interviewTypeLabel(type) ==
    CASE type = "first_contact" -> <<"F", "i", "r", "s", "t", " ", "C", "o", "n", "t", "a", "c", "t">>
      [] type = "technical_interview" -> <<"T", "e", "c", "h", "n", "i", "c", "a", "l", " ", "I", "n", "t", "e", "r", "v", "i", "e", "w">>
      [] type = "code_challenge" -> <<"C", "o", "d", "e", " ", "C", "h", "a", "l", "l", "e", "n", "g", "e">>
      [] type = "screener_call" -> <<"S", "c", "r", "e", "e", "n", "e", "r", " ", "C", "a", "l", "l">>
      [] type = "application_submitted" -> <<"A", "p", "p", "l", "i", "c", "a", "t", "i", "o", "n", " ", "S", "u", "b", "m", "i", "t", "t", "e", "d">>
      [] type = "custom" -> <<"C", "u", "s", "t", "o", "m">>

\* a Date as [day, ms]: parseLocalDate(d) is the local midnight of day d, and
\* new Date() is ms after the midnight of its day
midnight(d) == <<parseLocalDate(d), 0>>
newDate(clk) == <<parseLocalDate(clk.date), clk.ms>>

\* String.prototype.startsWith
startsWith(text, prefix) ==
    Len(text) >= Len(prefix) /\ SubSeq(text, 1, Len(prefix)) = prefix

\* getDisplayName(type, customName)
getDisplayName(event) ==
    IF event.type = "custom" /\ orEmpty(event, "customTypeName") # << >>
    THEN event.customTypeName
    ELSE interviewTypeLabel(event.type)

\* [...timeline].sort((a, b) => parseLocalDate(a.date).getTime() - parseLocalDate(b.date).getTime())
sortedEvents(timeline) ==
    sortByKey(timeline, [i \in 1..Len(timeline) |-> <<parseLocalDate(timeline[i].date)>>])

\* (the completed events kept in ascending order)
subStatusOldestCompleted(app, clk) ==
    IF app.status # "Interviewing" \/ "timeline" \notin DOMAIN app \/ Len(app.timeline) = 0
    THEN << >>
    ELSE LET sorted == sortedEvents(app.timeline)
             isActive(event) ==
                 /\ event.status \in {"scheduled", "pending"}
                 /\ compareNums(midnight(event.date), newDate(clk)) >= 0
             isCompleted(event) == event.status = "completed"
             active == SelectSeq(sorted, isActive)
             completed == SelectSeq(sorted, isCompleted)
         IN IF active # << >> THEN getDisplayName(Head(active))
            ELSE IF completed # << >> THEN getDisplayName(Head(completed))
            ELSE << >>

\* getInterviewingSubStatus(app, t); null is the empty text
getInterviewingSubStatus(app, clk) ==
    IF app.status # "Interviewing" \/ "timeline" \notin DOMAIN app \/ Len(app.timeline) = 0
    THEN << >>
    ELSE LET sorted == sortedEvents(app.timeline)
             isActive(event) ==
                 /\ event.status \in {"scheduled", "pending"}
                 /\ compareNums(midnight(event.date), newDate(clk)) >= 0
             isCompleted(event) == event.status = "completed"
             active == SelectSeq(sorted, isActive)
             completed == SelectSeq(sorted, isCompleted)
             completedEvents ==
                 sortByKey(completed,
                           [i \in 1..Len(completed) |-> <<0 - parseLocalDate(completed[i].date)>>])
         IN IF active # << >> THEN getDisplayName(Head(active))
            ELSE IF completedEvents # << >> THEN getDisplayName(completedEvents[1])
            ELSE << >>

\* the statusKey of one application in the grouped memo
statusKey(app, clk) ==
    LET subStatus == IF app.status = "Interviewing" THEN getInterviewingSubStatus(app, clk)
                     ELSE << >>
    IN IF subStatus # << >> THEN T_InterviewingDash \o subStatus
       ELSE IF app.status # "" THEN chars(app.status)
       ELSE T_Unknown

\* Array.prototype.sort() without a comparator
sortDefault(texts) == sortByKey(texts, [i \in 1..Len(texts) |-> unitKey(texts[i])])

\* (the status keys in the order the applications brought them)
orderedStatusesUnsorted(statuses) ==
    LET isSub(st) == startsWith(st, T_InterviewingDash)
        interviewingSubStatuses == SelectSeq(statuses, isSub)
        RECURSIVE defaults(_)
        defaults(order) ==
            IF order = << >> THEN << >>
            ELSE (IF Head(order) = "Interviewing"
                  THEN (IF member(statuses, chars("Interviewing"))
                        THEN <<chars("Interviewing")>> ELSE << >>) \o interviewingSubStatuses
                  ELSE IF member(statuses, chars(Head(order))) THEN <<chars(Head(order))>>
                  ELSE << >>)
                 \o defaults(Tail(order))
        orderedStatuses == defaults(DEFAULT_STATUS_ORDER)
        isOther(st) == ~member(orderedStatuses, st) /\ ~isSub(st)
    IN orderedStatuses \o SelectSeq(statuses, isOther)

\* orderedStatuses of the grouped memo, from the status keys in insertion order
orderedStatusesOf(statuses) ==
    LET isSub(st) == startsWith(st, T_InterviewingDash)
        interviewingSubStatuses == sortDefault(SelectSeq(statuses, isSub))
        RECURSIVE defaults(_)
        defaults(order) ==
            IF order = << >> THEN << >>
            ELSE (IF Head(order) = "Interviewing"
                  THEN (IF member(statuses, chars("Interviewing"))
                        THEN <<chars("Interviewing")>> ELSE << >>) \o interviewingSubStatuses
                  ELSE IF member(statuses, chars(Head(order))) THEN <<chars(Head(order))>>
                  ELSE << >>)
                 \o defaults(Tail(order))
        orderedStatuses == defaults(DEFAULT_STATUS_ORDER)
        isOther(st) == ~member(orderedStatuses, st) /\ ~isSub(st)
    IN orderedStatuses \o sortDefault(SelectSeq(statuses, isOther))

\* (the columns are keyed by the plain status of the application)
groupedByPlainStatus(apps, clk) ==
    LET keys == [i \in 1..Len(apps) |-> statusKey(apps[i], clk)]
        ordered == orderedStatusesOf(distinct(keys))
        indices(st) == LET hit(i) == chars(apps[i].status) = st
                       IN SelectSeq([i \in 1..Len(apps) |-> i], hit)
    IN [g \in 1..Len(ordered) |->
           [status |-> ordered[g],
            items |-> [n \in 1..Len(indices(ordered[g])) |-> apps[indices(ordered[g])[n]]]]]

\* the grouped memo of KanbanView
groupedOf(apps, clk) ==
    LET keys == [i \in 1..Len(apps) |-> statusKey(apps[i], clk)]
        ordered == orderedStatusesOf(distinct(keys))
        indices(st) == LET hit(i) == keys[i] = st
                       IN SelectSeq([i \in 1..Len(apps) |-> i], hit)
    IN [g \in 1..Len(ordered) |->
           [status |-> ordered[g],
            items |-> [n \in 1..Len(indices(ordered[g])) |-> apps[indices(ordered[g])[n]]]]]

-----------------------------------------------------------------------------
(* Stored collections the model starts from *)

RecordIds == {"a1", "a2"}

storedEvent(type, date, status) == [id |-> 0, type |-> type, date |-> date, status |-> status]

legacyRecord(id, status, applicationDate, interviewDate, notes) ==
    [id |-> id, status |-> status, applicationDate |-> applicationDate,
     interviewDate |-> interviewDate, notes |-> notes]

timelineRecord(id, status, applicationDate, interviewDate, notes, timeline) ==
    [id |-> id, status |-> status, applicationDate |-> applicationDate,
     interviewDate |-> interviewDate, notes |-> notes, timeline |-> timeline]

StoredTimelines ==
    { << >>,
      << storedEvent("application_submitted", "2024-01-01", "completed") >>,
      << storedEvent("application_submitted", "2024-01-01", "completed"),
         storedEvent("first_contact", "2024-01-15", "completed"),
         storedEvent("technical_interview", "2024-02-01", "scheduled") >> }

\* every shape of one stored record
AllRecords ==
    { legacyRecord("a1", s, a, i, n) :
        s \in Statuses, a \in AppDates, i \in IntDates, n \in NotesValues }
    \cup
    { timelineRecord("a1", s, a, i, "Referred by Jane", t) :
        s \in {"Applied", "Interviewing"}, a \in AppDates, i \in IntDates, t \in StoredTimelines }

\* a few shapes per id for the stored collections
StoredRecords(id) ==
    { legacyRecord(id, "Interviewing", "2024-01-01", "2024-02-01", "Referred by Jane"),
      legacyRecord(id, "Applied", "", "", "<img onerror=x>"),
      legacyRecord(id, "Rejected", "2024-01-01", "", "Referred by Jane"),
      timelineRecord(id, "Applied", "2024-01-01", "", "Referred by Jane", << >>),
      timelineRecord(id, "Interviewing", "2024-01-01", "2024-02-01", "Referred by Jane",
                     << storedEvent("application_submitted", "2024-01-01", "completed") >>) }

InitialStores ==
    { [kind |-> "absent"], [kind |-> "garbage"],
      [kind |-> "json", isArray |-> FALSE, value |-> << >>] }
    \cup { saveApplications(<<r>>) : r \in StoredRecords("a1") }
    \cup { saveApplications(<<r1, r2>>) : r1 \in StoredRecords("a1"), r2 \in StoredRecords("a2") }

removeAt(s, i) == [j \in 1..(Len(s) - 1) |-> IF j < i THEN s[j] ELSE s[j + 1]]

-----------------------------------------------------------------------------
(* The application store as a state machine: loads and write-back timers *)

recIdle ==
    /\ rec = [id |-> "a1"]
    /\ out = [id |-> "a1"]
    /\ op = "none"
    /\ outTimers = << >>

storeIdle ==
    /\ appStore = [kind |-> "absent"]
    /\ timers = << >>
    /\ loaded = << >>
    /\ loads = 0
    /\ migrations = [id \in RecordIds |-> 0]
    /\ firstLens = [id \in RecordIds |-> -1]

readIdle ==
    /\ oppStore = [kind |-> "absent"]
    /\ readOp = "none"
    /\ readResult = [threw |-> FALSE, value |-> << >>]

viewIdle ==
    /\ applications = << >>
    /\ filters = defaultFilters
    /\ filtered = << >>
    /\ availableStatuses = << >>
    /\ availablePlatforms = << >>

applyIdle ==
    /\ opportunities = << >>
    /\ applyPc = "idle"
    /\ applying = [id |-> "none"]
    /\ converted = [done |-> FALSE]
    /\ jobs = {}

kanbanIdle ==
    /\ cards = << >>
    /\ clock = [date |-> "2024-03-01", ms |-> 0]
    /\ grouped = << >>
    /\ renderedAt = [date |-> "2024-03-01", ms |-> 0]

\* the components that start timers
Components == {"FiltersBar", "Sidebar", "OpportunitiesPage", "GoogleSheetsSync", "ATSSearch"}

runIdle ==
    /\ mounted = [c \in Components |-> FALSE]
    /\ nowMs = 0
    /\ pendingTimers = << >>
    /\ afterUnmount = {}

barIdle ==
    /\ searchTerm = << >>
    /\ lastSearchFromProps = << >>
    /\ lastChange = [any |-> FALSE, at |-> 0, term |-> << >>, burst |-> 0]
    /\ lastCall = [count |-> 0, at |-> 0, search |-> << >>]
    /\ cleared = FALSE

sheetIdle ==
    sheets = [isCreatingSheet |-> FALSE, isSyncing |-> FALSE, isSettingSheet |-> FALSE,
              showSelectSheet |-> FALSE, hasSpreadsheet |-> FALSE,
              creates |-> 0, selects |-> 0, syncs |-> 0, overlapped |-> FALSE]

pollIdle == lastWrite = [any |-> FALSE, at |-> 0, notified |-> FALSE]

atsIdle == windowsOpened = 0

captchaIdle ==
    /\ captchas = << >>
    /\ serverTime = 0
    /\ captchaLog = [issued |-> 0, posts |-> 0, checked |-> {},
                     last |-> [id |-> 0, outcome |-> "none", rechecked |-> FALSE]]

compIdle == runIdle /\ barIdle /\ sheetIdle /\ pollIdle /\ atsIdle /\ captchaIdle

pageIdle == applyIdle /\ kanbanIdle /\ compIdle

prefIdle ==
    /\ prefStore = [kind |-> "absent"]
    /\ preferences = DEFAULT_PREFERENCES
    /\ editingCustomField = "none"
    /\ ops = 0

InitApps ==
    /\ appStore \in InitialStores
    /\ timers = << >>
    /\ nextId = 1
    /\ today = "2024-03-01"
    /\ loaded = << >>
    /\ loads = 0
    /\ migrations = [id \in RecordIds |-> 0]
    /\ firstLens = [id \in RecordIds |-> -1]
    /\ recIdle
    /\ prefIdle
    /\ readIdle
    /\ viewIdle
    /\ pageIdle

countMigrations(r) ==
    [id \in RecordIds |-> migrations[id] + (IF id \in r.migrated THEN 1 ELSE 0)]

\* a component (store, page) calls getApplications()
Load ==
    /\ loads < MaxLoads
    /\ LET r == getApplications(appStore, nextId, today)
       IN /\ loaded' = r.value
          /\ timers' = timers \o r.scheduled
          /\ nextId' = r.nid
          /\ migrations' = countMigrations(r)
          /\ firstLens' =
                [id \in RecordIds |->
                    IF firstLens[id] = -1 /\ \E i \in 1..Len(r.value) : r.value[i].id = id
                    THEN Len(r.value[CHOOSE i \in 1..Len(r.value) : r.value[i].id = id].timeline)
                    ELSE firstLens[id]]
    /\ loads' = loads + 1
    /\ UNCHANGED <<appStore, today, recVars, pageVars, prefVars, readVars, viewVars>>

\* one pending setTimeout callback runs: nested getApplications(), map, saveApplications
FireTimer(i) ==
    /\ i \in 1..Len(timers)
    /\ LET r == getApplications(appStore, nextId, today)
       IN /\ appStore' = saveApplications(writeBack(r.value, timers[i]))
          /\ timers' = removeAt(timers, i) \o r.scheduled
          /\ nextId' = r.nid
          /\ migrations' = countMigrations(r)
    /\ UNCHANGED <<today, loaded, loads, firstLens, recVars, pageVars, prefVars, readVars, viewVars>>

\* the calendar day changes between two operations
DayPasses ==
    /\ today = "2024-03-01"
    /\ today' = "2024-03-02"
    /\ UNCHANGED <<storeVars, nextId, recVars, pageVars, prefVars, readVars, viewVars>>

NextApps == Load \/ (\E i \in 1..Len(timers) : FireTimer(i)) \/ DayPasses

SpecApps == InitApps /\ [][NextApps]_vars

-----------------------------------------------------------------------------
(* Migration and load as functions of one stored record *)

InitRecord ==
    /\ rec \in AllRecords
    /\ out = [id |-> "a1"]
    /\ op = "none"
    /\ outTimers = << >>
    /\ nextId = 1
    /\ today \in Days
    /\ storeIdle
    /\ prefIdle
    /\ readIdle
    /\ viewIdle
    /\ pageIdle

\* migrateApplicationData(rec) called directly
ApplyMigrate ==
    /\ op = "none"
    /\ out' = migrateApplicationData(rec, nextId, today)
    /\ outTimers' = << >>
    /\ op' = "migrate"
    /\ nextId' = nextId + idsUsed(rec)
    /\ UNCHANGED <<rec, today, storeVars, pageVars, prefVars, readVars, viewVars>>

\* getApplications() over a stored array holding rec alone
ApplyLoad ==
    /\ op = "none"
    /\ LET r == getApplications(saveApplications(<<rec>>), nextId, today)
       IN /\ out' = r.value[1]
          /\ outTimers' = r.scheduled
          /\ nextId' = r.nid
    /\ op' = "load"
    /\ UNCHANGED <<rec, today, storeVars, pageVars, prefVars, readVars, viewVars>>

NextRecord == ApplyMigrate \/ ApplyLoad

SpecRecord == InitRecord /\ [][NextRecord]_vars

-----------------------------------------------------------------------------
(* Storage reads as functions of the stored text *)

restrict(f, S) == [k \in S |-> f[k]]

StoredPreferenceValues ==
    [enabledFields : {<< >>, <<"position", "company">>},
     columnOrder : {<< >>, <<"company", "position">>},
     customFields : {<< >>, << fieldDef("custom-1", "Recruiter", "text", FALSE) >>},
     defaultView : {"", "grid", "kanban"},
     dateFormat : {"INVALID", "DD/MM/YYYY"},
     customInterviewEvents : {<< [id |-> "interview-event-1", label |-> "Panel"] >>},
     atsSearch : {[roles |-> "\"sre\"", keywords |-> "\"hiring\"", location |-> "\"remote\""]}]

\* every stored object holding some of the preference properties
PartialPreferences ==
    { restrict(f, S) : f \in StoredPreferenceValues, S \in SUBSET DOMAIN DEFAULT_PREFERENCES }

RawPrefStores ==
    { [kind |-> "absent"], [kind |-> "empty"], [kind |-> "garbage"],
      [kind |-> "json", jsonType |-> "null", value |-> << >>],
      [kind |-> "json", jsonType |-> "number", value |-> << >>] }
    \cup { savePreferences(o) : o \in PartialPreferences }

opportunity(id, description) ==
    [id |-> id, position |-> "X", company |-> "Y", link |-> "z", description |-> description]

RawCollectionStores ==
    { [kind |-> "absent"], [kind |-> "empty"], [kind |-> "garbage"],
      [kind |-> "json", isArray |-> FALSE, value |-> << >>] }

RawOppStores ==
    RawCollectionStores
    \cup { saveOpportunities(<< >>),
           saveOpportunities(<< opportunity("o1", "Referred by Jane") >>),
           saveOpportunities(<< opportunity("o1", "<img onerror=x>"),
                                opportunity("o2", "Referred by Jane") >>) }

InitRead ==
    /\ \/ /\ prefStore \in RawPrefStores
          /\ appStore = [kind |-> "absent"]
          /\ oppStore = [kind |-> "absent"]
       \/ /\ prefStore = [kind |-> "absent"]
          /\ appStore \in RawCollectionStores \cup InitialStores
          /\ oppStore = [kind |-> "absent"]
       \/ /\ prefStore = [kind |-> "absent"]
          /\ appStore = [kind |-> "absent"]
          /\ oppStore \in RawOppStores
    /\ readOp = "none"
    /\ readResult = [threw |-> FALSE, value |-> << >>]
    /\ timers = << >>
    /\ loaded = << >>
    /\ loads = 0
    /\ migrations = [id \in RecordIds |-> 0]
    /\ firstLens = [id \in RecordIds |-> -1]
    /\ nextId = 1
    /\ today = "2024-03-01"
    /\ preferences = DEFAULT_PREFERENCES
    /\ editingCustomField = "none"
    /\ ops = 0
    /\ recIdle
    /\ viewIdle
    /\ pageIdle

ReadApplications ==
    /\ readOp = "none"
    /\ LET r == getApplications(appStore, nextId, today)
       IN /\ readResult' = [threw |-> r.threw, value |-> r.value]
          /\ timers' = timers \o r.scheduled
          /\ nextId' = r.nid
    /\ readOp' = "applications"
    /\ UNCHANGED <<appStore, loaded, loads, migrations, firstLens, today, oppStore,
                   recVars, pageVars, prefVars, viewVars>>

ReadOpportunities ==
    /\ readOp = "none"
    /\ readResult' = getOpportunities(oppStore)
    /\ readOp' = "opportunities"
    /\ UNCHANGED <<storeVars, clockVars, oppStore, recVars, pageVars, prefVars, viewVars>>

ReadPreferences ==
    /\ readOp = "none"
    /\ readResult' = getPreferences(prefStore)
    /\ readOp' = "preferences"
    /\ UNCHANGED <<storeVars, clockVars, oppStore, recVars, pageVars, prefVars, viewVars>>

NextRead == ReadApplications \/ ReadOpportunities \/ ReadPreferences

SpecRead == InitRead /\ [][NextRead]_vars

-----------------------------------------------------------------------------
(* src/pages/SettingsPage.tsx over the preferences store *)

Range(s) == { s[i] : i \in 1..Len(s) }

without(s, x) == LET keep(y) == y # x IN SelectSeq(s, keep)

\* allFields = [...DEFAULT_FIELDS, ...preferences.customFields]
allFields(prefs) == DEFAULT_FIELDS \o prefs.customFields

\* orderedFields: the rows the fields section renders
orderedFieldIds(prefs) ==
    LET known(id) == id \in Range(idsOf(allFields(prefs)))
    IN SelectSeq(prefs.columnOrder, known)

indexOf(s, x) == IF x \in Range(s) THEN CHOOSE i \in 1..Len(s) : s[i] = x /\ \A j \in 1..(i - 1) : s[j] # x
                 ELSE 0

\* each handler yields the patch it hands to updatePreferences
handleToggleField(prefs, fieldId) ==
    [enabledFields |->
        IF fieldId \in Range(prefs.enabledFields)
        THEN without(prefs.enabledFields, fieldId)
        ELSE Append(prefs.enabledFields, fieldId)]

handleMoveField(prefs, fieldId, direction) ==
    LET order == prefs.columnOrder
        index == indexOf(order, fieldId)
        targetIndex == IF direction = "up" THEN index - 1 ELSE index + 1
    IN IF index = 0 \/ targetIndex < 1 \/ targetIndex > Len(order)
       THEN << >>
       ELSE [columnOrder |->
                [order EXCEPT ![index] = order[targetIndex], ![targetIndex] = order[index]]]

handleAddCustomField(prefs, id, label, type) ==
    LET newField == fieldDef(id, label, type, FALSE)
    IN [customFields |-> Append(prefs.customFields, newField),
        enabledFields |-> Append(prefs.enabledFields, newField.id),
        columnOrder |-> Append(prefs.columnOrder, newField.id)]

handleUpdateCustomField(prefs, editingId, label, type) ==
    [customFields |->
        [i \in 1..Len(prefs.customFields) |->
            IF prefs.customFields[i].id = editingId
            THEN [prefs.customFields[i] EXCEPT !.label = label, !.type = type, !.required = FALSE]
            ELSE prefs.customFields[i]]]

handleDeleteCustomField(prefs, fieldId) ==
    LET keep(f) == f.id # fieldId
    IN [customFields |-> SelectSeq(prefs.customFields, keep),
        enabledFields |-> without(prefs.enabledFields, fieldId),
        columnOrder |-> without(prefs.columnOrder, fieldId)]

\* usePreferencesStore.updatePreferences: merge the patch into the held
\* preferences and persist them (stores/preferencesStore)
updatePreferences(prefs, patch) == patch @@ prefs

\* a stored preferences object written while the field list still had the
\* interviewDate column (ApplicationTableRow columnToKeyMap) and no timeline column
StalePreferences ==
    [enabledFields |-> <<"position", "company", "status", "applicationDate", "interviewDate",
                         "link", "platform", "salary", "contactName", "followUpDate">>,
     columnOrder |-> <<"position", "company", "status", "applicationDate", "interviewDate",
                       "notes", "link", "platform", "salary", "contactName", "followUpDate">>,
     customFields |-> << >>,
     defaultView |-> "table",
     dateFormat |-> "YYYY-MM-DD"]

InitialPrefStores ==
    { [kind |-> "absent"], savePreferences(StalePreferences) }

\* field rows and form values the settings operations are tried with
FieldInputs == {"position", "notes", "followUpDate", "custom-1", "custom-2"}
LabelInputs == {"Recruiter", "Referral"}

InitSettings ==
    /\ prefStore \in InitialPrefStores
    /\ preferences = DEFAULT_PREFERENCES
    /\ editingCustomField = "none"
    /\ ops = 0
    /\ nextId = 1
    /\ today = "2024-03-01"
    /\ storeIdle
    /\ recIdle
    /\ readIdle
    /\ viewIdle
    /\ pageIdle

Commit(patch) ==
    /\ preferences' = updatePreferences(preferences, patch)
    /\ prefStore' = savePreferences(preferences')
    /\ ops' = ops + 1

settingsFrame == UNCHANGED <<storeVars, today, recVars, pageVars, readVars, viewVars>>

\* useEffect(() => loadPreferences()): the store re-reads storage
LoadPreferences ==
    /\ ops < MaxOps
    /\ preferences' = getPreferences(prefStore).value
    /\ ops' = ops + 1
    /\ UNCHANGED <<prefStore, editingCustomField, nextId>>
    /\ settingsFrame

ToggleField(fieldId) ==
    /\ ops < MaxOps
    /\ fieldId \in Range(orderedFieldIds(preferences))
    /\ Commit(handleToggleField(preferences, fieldId))
    /\ UNCHANGED <<editingCustomField, nextId>>
    /\ settingsFrame

MoveField(fieldId, direction) ==
    /\ ops < MaxOps
    /\ fieldId \in Range(orderedFieldIds(preferences))
    /\ handleMoveField(preferences, fieldId, direction) # << >>
    /\ Commit(handleMoveField(preferences, fieldId, direction))
    /\ UNCHANGED <<editingCustomField, nextId>>
    /\ settingsFrame

DefaultViewChange(view) ==
    /\ ops < MaxOps
    /\ Commit([defaultView |-> view])
    /\ UNCHANGED <<editingCustomField, nextId>>
    /\ settingsFrame

DateFormatChange(format) ==
    /\ ops < MaxOps
    /\ Commit([dateFormat |-> format])
    /\ UNCHANGED <<editingCustomField, nextId>>
    /\ settingsFrame

AddCustomField(label) ==
    /\ ops < MaxOps
    /\ label # ""
    /\ Commit(handleAddCustomField(preferences, "custom-" \o ToString(generateId(nextId)),
                                   label, "text"))
    /\ nextId' = nextId + 1
    /\ editingCustomField' = "none"
    /\ settingsFrame

EditCustomField(fieldId) ==
    /\ ops < MaxOps
    /\ fieldId \in Range(idsOf(preferences.customFields))
    /\ editingCustomField' = fieldId
    /\ ops' = ops + 1
    /\ UNCHANGED <<prefStore, preferences, nextId>>
    /\ settingsFrame

UpdateCustomField(label) ==
    /\ ops < MaxOps
    /\ editingCustomField # "none"
    /\ label # ""
    /\ Commit(handleUpdateCustomField(preferences, editingCustomField, label, "text"))
    /\ editingCustomField' = "none"
    /\ UNCHANGED nextId
    /\ settingsFrame

DeleteCustomField(fieldId) ==
    /\ ops < MaxOps
    /\ fieldId \in Range(idsOf(preferences.customFields))
    /\ Commit(handleDeleteCustomField(preferences, fieldId))
    /\ UNCHANGED <<editingCustomField, nextId>>
    /\ settingsFrame

\* handleReset: resetPreferences() puts the defaults back and persists them
Reset ==
    /\ ops < MaxOps
    /\ preferences' = DEFAULT_PREFERENCES
    /\ prefStore' = savePreferences(DEFAULT_PREFERENCES)
    /\ editingCustomField' = "none"
    /\ ops' = ops + 1
    /\ UNCHANGED nextId
    /\ settingsFrame

NextSettings ==
    \/ LoadPreferences
    \/ \E f \in FieldInputs : ToggleField(f)
    \/ \E f \in FieldInputs, d \in {"up", "down"} : MoveField(f, d)
    \/ \E v \in {"kanban"} : DefaultViewChange(v)
    \/ \E f \in {"DD/MM/YYYY"} : DateFormatChange(f)
    \/ \E l \in LabelInputs : AddCustomField(l)
    \/ \E f \in FieldInputs : EditCustomField(f)
    \/ \E l \in LabelInputs : UpdateCustomField(l)
    \/ \E f \in FieldInputs : DeleteCustomField(f)
    \/ Reset

SpecSettings == InitSettings /\ [][NextSettings]_vars

-----------------------------------------------------------------------------
(* The derived view of the home page as a state machine *)

T_Dev == <<"D", "e", "v">>
T_Ops == <<"O", "p", "s">>
T_Acme == <<"A", "c", "m", "e">>
T_ReferredByJane == <<"R", "e", "f", "e", "r", "r", "e", "d", " ", "b", "y", " ", "J", "a", "n", "e">>
T_Panel == <<"P", "a", "n", "e", "l">>
T_SearchJane == <<" ", "j", "a", "n", "e", " ">>
T_SearchPANEL == <<"P", "A", "N", "E", "L">>

viewApp(id, position, status, platform, applicationDate, notes, timeline) ==
    [id |-> id, position |-> position, company |-> T_Acme, contactName |-> << >>,
     notes |-> notes, status |-> status, platform |-> platform,
     applicationDate |-> applicationDate, interviewDate |-> "", timeline |-> timeline]

viewEvent(type, date, status) == [id |-> 0, type |-> type, date |-> date, status |-> status]

ApplicationLists ==
    { << viewApp("a1", T_Dev, "Applied", "LinkedIn", "2024-01-15", T_ReferredByJane, << >>),
         viewApp("a2", T_Ops, "Interviewing", "Indeed", "2024-02-01", << >>,
                 << viewEvent("custom", "2024-02-15", "scheduled") @@ [customTypeName |-> T_Panel] >>),
         viewApp("a3", T_Dev, "Rejected", "LinkedIn", "2024-03-01", << >>, << >>),
         viewApp("a4", T_Ops, "Deleted", "LinkedIn", "2024-02-01", T_ReferredByJane, << >>) >>,
      << viewApp("a1", T_Dev, "Deleted", "Indeed", "", << >>, << >>),
         viewApp("a2", T_Ops, "Hold", "", "", T_ReferredByJane, << >>) >> }

\* the values each filter control is tried with
FilterInputs ==
    [search |-> {<< >>, T_SearchJane, T_SearchPANEL},
     status |-> {"", "Applied", "Deleted"},
     statusInclude |-> {<< >>, <<"Applied", "Interviewing">>, <<"Deleted", "Hold">>},
     statusExclude |-> {<< >>, <<"Rejected">>, <<"Interviewing">>},
     platform |-> {"", "LinkedIn"},
     dateFrom |-> {"", "2024-02-01"},
     dateTo |-> {"", "2024-02-15"}]

InitView ==
    /\ applications \in ApplicationLists
    /\ filters = defaultFilters
    /\ filtered = filteredApplications(applications, defaultFilters)
    /\ availableStatuses = statusFacet(applications)
    /\ availablePlatforms = platformFacet(applications)
    /\ nextId = 1
    /\ today = "2024-03-01"
    /\ storeIdle
    /\ recIdle
    /\ prefIdle
    /\ readIdle
    /\ pageIdle

viewFrame == UNCHANGED <<storeVars, clockVars, recVars, pageVars, prefVars, readVars>>

\* handleFiltersChange(nextFilters), then the filteredApplications memo
FiltersChange(nextFilters) ==
    /\ filters' = nextFilters
    /\ filtered' = filteredApplications(applications, nextFilters)
    /\ UNCHANGED <<applications, availableStatuses, availablePlatforms>>
    /\ viewFrame

\* handleClearFilters(), then the filteredApplications memo
ClearFilters ==
    /\ filters' = defaultFilters
    /\ filtered' = filteredApplications(applications, defaultFilters)
    /\ UNCHANGED <<applications, availableStatuses, availablePlatforms>>
    /\ viewFrame

\* deleteApplication(id) of the applications store: the record is marked
\* "Deleted" (soft) or taken out of the list
deleteApplication(apps, id, soft) ==
    IF soft
    THEN [i \in 1..Len(apps) |-> IF apps[i].id = id THEN [apps[i] EXCEPT !.status = "Deleted"]
                                 ELSE apps[i]]
    ELSE LET others(app) == app.id # id IN SelectSeq(apps, others)

\* handleDeleteEntry(appToDelete), then both memos
DeleteEntry(i, soft) ==
    /\ i \in 1..Len(filtered)
    /\ applications' = deleteApplication(applications, filtered[i].id, soft)
    /\ filtered' = filteredApplications(applications', filters)
    /\ availableStatuses' = statusFacet(applications')
    /\ availablePlatforms' = platformFacet(applications')
    /\ UNCHANGED filters
    /\ viewFrame

\* a filter control hands over the current filters with its own field changed
NextView ==
    \/ \E k \in DOMAIN FilterInputs : \E v \in FilterInputs[k] :
            FiltersChange([filters EXCEPT ![k] = v])
    \/ ClearFilters
    \/ \E i \in 1..Len(applications), soft \in BOOLEAN : DeleteEntry(i, soft)

SpecView == InitView /\ [][NextView]_vars

-----------------------------------------------------------------------------
(* The opportunities page: the apply flow as a state machine *)

\* conversions in one run
MaxApplies == 2

OptionalFields == {"description", "location", "jobType", "salary", "postedDate"}

\* a captured lead with the given optional fields
lead(id, link, optional) ==
    restrict([id |-> id, position |-> "X", company |-> "Y", link |-> link,
              capturedDate |-> "2024-02-01T09:00:00.000Z",
              description |-> "Referred by Jane", location |-> "Remote",
              jobType |-> "Full-time", salary |-> "100k", postedDate |-> "2024-01-15"],
             {"id", "position", "company", "link", "capturedDate"} \cup optional)

\* addApplication(application) of the applications store
addApplication(apps, application) == Append(apps, application)

InitApply ==
    /\ \E optional \in SUBSET OptionalFields :
          oppStore = saveOpportunities(<< lead("o1", "z1", optional),
                                          lead("o2", "z2", {"location"}) >>)
    /\ opportunities = getOpportunities(oppStore).value
    /\ applyPc = "idle"
    /\ applying = [id |-> "none"]
    /\ converted = [done |-> FALSE]
    /\ jobs = {"z1", "z2"}
    /\ readOp = "none"
    /\ readResult = [threw |-> FALSE, value |-> << >>]
    /\ nextId = 1
    /\ today \in Days
    /\ storeIdle
    /\ recIdle
    /\ prefIdle
    /\ viewIdle
    /\ kanbanIdle
    /\ compIdle

applyFrame ==
    UNCHANGED <<timers, loaded, loads, migrations, firstLens, today, recVars, prefVars,
                readOp, readResult, filters, filtered, availableStatuses,
                availablePlatforms, kanbanVars, compVars>>

\* handleApply(opportunity), up to and including addApplication(application)
ApplyAdd(i, setItemOk) ==
    /\ applyPc = "idle"
    /\ i \in 1..Len(opportunities)
    /\ nextId < 2 * MaxApplies
    /\ LET opp == opportunities[i]
           application == convertOpportunityToApplication(opp, nextId, today)
       IN /\ applications' = addApplication(applications, application)
          /\ appStore' = writeApplications(appStore, applications', setItemOk)
          /\ applying' = opp
          /\ converted' = [done |-> TRUE, from |-> opp, to |-> application,
                           appended |-> additionalInfo(opp), firstId |-> nextId]
    /\ nextId' = nextId + 2
    /\ applyPc' = "added"
    /\ UNCHANGED <<oppStore, opportunities, jobs>>
    /\ applyFrame

\* handleApply(opportunity), from deleteOpportunity(opportunity.id) on
ApplyDelete(setItemOk) ==
    /\ applyPc = "added"
    /\ oppStore' = deleteOpportunity(oppStore, applying.id, setItemOk)
    /\ opportunities' = getOpportunities(oppStore').value
    /\ applyPc' = "idle"
    /\ UNCHANGED <<appStore, applications, applying, converted, jobs, nextId>>
    /\ applyFrame

\* confirmDelete(): the user discards a lead
ConfirmDelete(i, setItemOk) ==
    /\ applyPc = "idle"
    /\ i \in 1..Len(opportunities)
    /\ oppStore' = deleteOpportunity(oppStore, opportunities[i].id, setItemOk)
    /\ opportunities' = getOpportunities(oppStore').value
    /\ jobs' = jobs \ {opportunities[i].link}
    /\ UNCHANGED <<appStore, applications, applyPc, applying, converted, nextId>>
    /\ applyFrame

\* the page is closed or crashes at any point and is opened again: both
\* stores load from storage
Reopen ==
    /\ applications' = getApplications(appStore, nextId, today).value
    /\ opportunities' = getOpportunities(oppStore).value
    /\ applyPc' = "idle"
    /\ UNCHANGED <<appStore, oppStore, applying, converted, jobs, nextId>>
    /\ applyFrame

NextApply ==
    \/ \E i \in 1..2, setItemOk \in BOOLEAN : ApplyAdd(i, setItemOk)
    \/ \E setItemOk \in BOOLEAN : ApplyDelete(setItemOk)
    \/ \E i \in 1..2, setItemOk \in BOOLEAN : ConfirmDelete(i, setItemOk)
    \/ Reopen

SpecApply == InitApply /\ [][NextApply]_vars

-----------------------------------------------------------------------------
(* The kanban view as a state machine: the applications prop grows, time passes *)

\* applications on the board
MaxCards == 3

card(id, status, timeline) ==
    viewApp(id, T_Dev, status, "LinkedIn", "2024-01-15", << >>, timeline)

CardInputs ==
    { card("k1", "Applied", << >>),
      card("k2", "Interviewing", << viewEvent("technical_interview", "2024-02-01", "scheduled") >>),
      card("k3", "Interviewing", << viewEvent("first_contact", "2024-02-01", "completed") >>),
      card("k4", "Interviewing", << viewEvent("first_contact", "2024-02-01", "completed"),
                                    viewEvent("technical_interview", "2024-03-01", "scheduled") >>),
      card("k5", "Interviewing", << viewEvent("custom", "2024-03-02", "pending")
                                        @@ [customTypeName |-> T_Panel],
                                    viewEvent("screener_call", "2024-02-15", "completed") >>),
      card("k6", "Interviewing", << viewEvent("first_contact", "2024-02-01", "completed"),
                                    viewEvent("code_challenge", "2024-02-15", "completed") >>),
      card("k7", "Offer", << >>),
      card("k8", "Hold", << >>),
      card("k9", "Ghosted", << >>),
      card("k10", "", << >>) }

\* the moments the board is looked at: midnight of a day, later that day, the next midnight
Moments == << [date |-> "2024-03-01", ms |-> 0], [date |-> "2024-03-01", ms |-> 1],
              [date |-> "2024-03-02", ms |-> 0] >>

InitKanban ==
    /\ cards = << >>
    /\ clock \in {Moments[1], Moments[2]}
    /\ grouped = groupedOf(<< >>, clock)
    /\ renderedAt = clock
    /\ nextId = 1
    /\ today = "2024-03-01"
    /\ storeIdle
    /\ recIdle
    /\ prefIdle
    /\ readIdle
    /\ viewIdle
    /\ applyIdle
    /\ compIdle

kanbanFrame ==
    UNCHANGED <<storeVars, clockVars, recVars, prefVars, readVars, viewVars, applyVars,
                compVars>>

\* the applications prop gets one more application; the grouped memo is recomputed
AddCard(app) ==
    /\ Len(cards) < MaxCards
    /\ \A i \in 1..Len(cards) : cards[i].id # app.id
    /\ cards' = Append(cards, app)
    /\ grouped' = groupedOf(cards', clock)
    /\ renderedAt' = clock
    /\ UNCHANGED clock
    /\ kanbanFrame

\* time passes; the memo depends on [applications, t] and is not recomputed
Tick ==
    /\ \E m \in 1..(Len(Moments) - 1) : clock = Moments[m] /\ clock' = Moments[m + 1]
    /\ UNCHANGED <<cards, grouped, renderedAt>>
    /\ kanbanFrame

NextKanban ==
    \/ \E app \in CardInputs : AddCard(app)
    \/ Tick

SpecKanban == InitKanban /\ [][NextKanban]_vars

-----------------------------------------------------------------------------
(* The application store with the user editing between a load and its write-backs *)

\* updateApplication(id, data) of the applications store
updateApplication(apps, id, data) ==
    [i \in 1..Len(apps) |-> IF apps[i].id = id THEN data @@ apps[i] ELSE apps[i]]

\* handleSaveEntry(entryData) for an application the store holds: the edit
\* form hands back the record with another status; the store saves its list
SaveEntry(i) ==
    /\ i \in 1..Len(loaded)
    /\ loaded[i].status \notin {"Offer", "Deleted"}
    /\ loaded' = updateApplication(loaded, loaded[i].id, [status |-> "Offer"])
    /\ appStore' = saveApplications(loaded')
    /\ UNCHANGED <<timers, loads, migrations, firstLens, clockVars, recVars, pageVars,
                   prefVars, readVars, viewVars>>

\* handleDeleteEntry(appToDelete); the store saves its list
RemoveEntry(i, soft) ==
    /\ i \in 1..Len(loaded)
    /\ loaded[i].status \notin {"Offer", "Deleted"}
    /\ loaded' = deleteApplication(loaded, loaded[i].id, soft)
    /\ appStore' = saveApplications(loaded')
    /\ UNCHANGED <<timers, loads, migrations, firstLens, clockVars, recVars, pageVars,
                   prefVars, readVars, viewVars>>

NextEdits ==
    \/ NextApps
    \/ \E i \in 1..Len(loaded) : SaveEntry(i)
    \/ \E i \in 1..Len(loaded), soft \in BOOLEAN : RemoveEntry(i, soft)

SpecEdits == InitApps /\ [][NextEdits]_vars

-----------------------------------------------------------------------------
(* Properties of the migration (SpecRecord) *)

hasTimeline(r) == "timeline" \in DOMAIN r

StageOfStatus ==
    [s \in Statuses |->
        IF s = "Interviewing" THEN "technical_interview"
        ELSE IF s = "Offer" THEN "offer"
        ELSE IF s = "Rejected" THEN "rejected"
        ELSE IF s = "Withdrawn" THEN "withdrawn"
        ELSE "application_submitted"]

typeStatusDate(e) == <<e.type, e.status, e.date>>

C5_LegacyIffNoTimelineProperty ==
    op = "load" =>
        /\ (Len(outTimers) = 1) <=> ~hasTimeline(rec)
        /\ (Len(outTimers) = 0) <=> hasTimeline(rec)
        /\ ~hasTimeline(rec) =>
              /\ Len(out.timeline) >= 1
              /\ \A n \in 1..Len(out.timeline) : out.timeline[n].id >= 1
              /\ outTimers[1].id = rec.id
        /\ (hasTimeline(rec) /\ rec.timeline = << >>) => out.timeline = << >>

C5_Witness ==
    /\ op = "load"
    /\ hasTimeline(rec)
    /\ rec.timeline = << >>
    /\ rec.interviewDate # ""

-----------------------------------------------------------------------------
(* Properties of the load / write-back machine (SpecApps) *)

\* C2 as stated: the migration function runs on a given stored record at most
\* once, whatever the loads and the order in which the write-back timers fire.
C2_MigratedAtMostOnce ==
    \A id \in RecordIds : migrations[id] <= 1

storedArray == IF appStore.kind = "json" /\ appStore.isArray THEN appStore.value ELSE << >>

\* C3: once a load has returned a record, every later load returns it, and the
\* store holds it, with as many timeline events as that first load returned,
\* wherever the write-back timers fire.
C3_LoadTwiceSameEvents ==
    \A id \in RecordIds :
        firstLens[id] # -1 =>
            /\ \A i \in 1..Len(loaded) :
                  loaded[i].id = id => Len(loaded[i].timeline) = firstLens[id]
            /\ \A i \in 1..Len(storedArray) :
                  (storedArray[i].id = id /\ hasTimeline(storedArray[i]))
                      => Len(storedArray[i].timeline) = firstLens[id]

C3_Witness ==
    /\ loads = 2
    /\ migrations["a1"] >= 2
    /\ firstLens["a1"] = 2
    /\ Len(storedArray) >= 1
    /\ hasTimeline(storedArray[1])
    /\ timers = << >>

\* the stored records that have no timeline yet
legacyStored == {i \in 1..Len(storedArray) : isLegacyApplication(storedArray[i])}

\* the pending write-backs whose record is stored with a timeline already
staleTimers ==
    {i \in 1..Len(timers) :
        \A j \in 1..Len(storedArray) :
            storedArray[j].id = timers[i].id => ~isLegacyApplication(storedArray[j])}

\* one write-back timer fires
TimerFires == \E i \in 1..Len(timers) : FireTimer(i)

C25_WriteBackKeepsLaterChange ==
    \A i \in 1..Len(loaded) :
        loaded[i].status \in {"Offer", "Deleted"} =>
            \E j \in 1..Len(storedArray) :
                /\ storedArray[j].id = loaded[i].id
                /\ storedArray[j].status = loaded[i].status

-----------------------------------------------------------------------------
(* Properties of the storage reads (SpecRead) *)

unusableCollection(store) ==
    \/ store.kind \in {"absent", "empty", "garbage"}
    \/ store.kind = "json" /\ ~store.isArray

\* C6: no storage read throws to its caller; for an absent, unparsable or
\* non-array stored text getApplications and getOpportunities return the empty
\* collection, and for an absent, unparsable or non-object one getPreferences
\* returns the full default preferences.
C6_ReadsNeverThrow ==
    readOp # "none" =>
        /\ ~readResult.threw
        /\ (readOp = "applications" /\ unusableCollection(appStore)) => readResult.value = << >>
        /\ (readOp = "opportunities" /\ unusableCollection(oppStore)) => readResult.value = << >>
        /\ (readOp = "preferences" /\ (prefStore.kind # "json" \/ prefStore.jsonType # "object"))
              => readResult.value = DEFAULT_PREFERENCES

C6_Witness ==
    /\ readOp = "applications"
    /\ appStore.kind = "garbage"
    /\ readResult.value = << >>

\* C7: on load each preference field is resolved on its own: a stored value
\* that is absent, an empty enabledFields or columnOrder, or a defaultView or
\* dateFormat outside its allowed set gives that field's default, and every
\* other field keeps its stored value; {"dateFormat":"INVALID"} gives the defaults.
C7_PerFieldFallback ==
    (readOp = "preferences" /\ prefStore.kind = "json" /\ prefStore.jsonType = "object") =>
        LET parsed == prefStore.value
        IN /\ DOMAIN readResult.value = DOMAIN DEFAULT_PREFERENCES
           /\ \A k \in DOMAIN DEFAULT_PREFERENCES :
                 readResult.value[k] =
                    IF usable(parsed, k) THEN parsed[k] ELSE DEFAULT_PREFERENCES[k]
           /\ parsed = [dateFormat |-> "INVALID"] => readResult.value = DEFAULT_PREFERENCES

C7_Witness ==
    /\ readOp = "preferences"
    /\ prefStore.kind = "json"
    /\ prefStore.jsonType = "object"
    /\ DOMAIN prefStore.value = {"dateFormat", "defaultView", "enabledFields"}
    /\ prefStore.value.dateFormat = "INVALID"
    /\ prefStore.value.defaultView = "kanban"
    /\ prefStore.value.enabledFields = << >>
    /\ readResult.value.dateFormat = "YYYY-MM-DD"
    /\ readResult.value.defaultView = "kanban"
    /\ readResult.value.enabledFields = DEFAULT_PREFERENCES.enabledFields

-----------------------------------------------------------------------------
(* Properties of the settings operations (SpecSettings) *)

fieldIds(prefs) == Range(idsOf(DEFAULT_FIELDS)) \cup Range(idsOf(prefs.customFields))

\* C8 as stated: after any load and any settings operations every id in
\* enabledFields and in columnOrder is the id of a DEFAULT_FIELDS entry or of an
\* entry of customFields.
C8_IdsAreBacked ==
    /\ Range(preferences.enabledFields) \subseteq fieldIds(preferences)
    /\ Range(preferences.columnOrder) \subseteq fieldIds(preferences)

\* C9 as stated: after any load and any settings operations columnOrder holds
\* every DEFAULT_FIELDS id and every customFields id exactly once and nothing else.
C9_ColumnOrderIsPermutation ==
    /\ Range(preferences.columnOrder) = fieldIds(preferences)
    /\ Len(preferences.columnOrder) = Cardinality(fieldIds(preferences))

-----------------------------------------------------------------------------
(* Properties of the derived view (SpecView) *)

\* C10: whatever the application list and the Filters value, no record whose
\* status is "Deleted" is in the filtered result.
C10_DeletedNeverShown ==
    \A i \in 1..Len(filtered) : filtered[i].status # "Deleted"

C10_Witness ==
    /\ member(filters.statusInclude, "Deleted")
    /\ filters.statusExclude = << >>
    /\ \E i \in 1..Len(applications) : applications[i].status = "Deleted"
    /\ Len(filtered) = 1
    /\ filtered[1].status = "Hold"

\* C11: with a non-empty statusExclude, no record whose status is in
\* statusExclude is in the filtered result, also when statusInclude names that
\* status too.
C11_ExcludeBeatsInclude ==
    filters.statusExclude # << >> =>
        \A i \in 1..Len(filtered) : ~member(filters.statusExclude, filtered[i].status)

C11_Witness ==
    /\ filters.statusInclude = <<"Applied", "Interviewing">>
    /\ filters.statusExclude = <<"Interviewing">>
    /\ \E i \in 1..Len(applications) : applications[i].status = "Interviewing"
    /\ Len(filtered) >= 1
    /\ \A i \in 1..Len(filtered) : filtered[i].status = "Applied"

\* the filtered result the other filters give when the legacy status is unset
withoutLegacyStatus == filteredApplications(applications, [filters EXCEPT !.status = ""])

\* C12: the legacy status is an exact match on the record's status when it is
\* set and both statusInclude and statusExclude are empty; when either list is
\* non-empty its value does not change the filtered result.
C12_LegacyStatusOnlyAlone ==
    IF filters.status # "" /\ filters.statusInclude = << >> /\ filters.statusExclude = << >>
    THEN LET exact(app) == app.status = filters.status
         IN filtered = SelectSeq(withoutLegacyStatus, exact)
    ELSE filtered = withoutLegacyStatus

C12_Witness ==
    /\ filters.status = "Applied"
    /\ filters.statusExclude = <<"Rejected">>
    /\ \E i \in 1..Len(filtered) : filtered[i].status = "Interviewing"
    /\ \E i \in 1..Len(filtered) : filtered[i].status = "Applied"

\* the texts of a record that are searched, one after the other
searchedTexts(app) ==
    LET eventTexts(e) == <<orEmpty(e, "notes"), orEmpty(e, "customTypeName"),
                           orEmpty(e, "interviewerName")>>
        RECURSIVE ofEvents(_)
        ofEvents(es) == IF es = << >> THEN << >>
                        ELSE eventTexts(Head(es)) \o ofEvents(Tail(es))
    IN <<app.position, app.company, app.contactName, app.notes>> \o ofEvents(app.timeline)

\* C13: a record that is not deleted and passes the other filters is in the
\* filtered result exactly when the trimmed, lower-cased search term is a part
\* of the lower-cased concatenation (a space between the texts) of its position,
\* company, contactName, notes and its events' notes, customTypeName and
\* interviewerName.
C13_SearchIsCaseInsensitiveSubstring ==
    \A i \in 1..Len(applications) :
        LET app == applications[i]
            term == toLowerCase(trim(filters.search))
        IN (~isDeleted(app) /\ matchesFilters(app, [filters EXCEPT !.search = << >>])) =>
               (member(filtered, app) <=>
                    includes(toLowerCase(joinSpace(searchedTexts(app))), term))

C13_Witness ==
    /\ filters.search = T_SearchJane
    /\ filters.status = "" /\ filters.platform = ""
    /\ Len(filtered) = 1
    /\ filtered[1].notes = T_ReferredByJane
    /\ \E i \in 1..Len(applications) :
           ~isDeleted(applications[i]) /\ ~member(filtered, applications[i])

\* strictly ascending in lexicographic order: every value once
ascending(values) ==
    \A i, j \in 1..Len(values) :
        i < j => compareNums(unitKey(chars(values[i])), unitKey(chars(values[j]))) < 0

-----------------------------------------------------------------------------
(* Properties of the apply flow (SpecApply) *)

\* C15: the application a conversion returns has an id no other application
\* has, status "Applied", today's date as applicationDate, the opportunity's
\* position, company, link and salary, and a timeline of exactly one event:
\* application_submitted, completed, dated today.
C15_ConvertedApplication ==
    converted.done =>
        LET o == converted.from
            a == converted.to
        IN /\ \A j \in 1..Len(applications) :
                  applications[j].id = a.id => applications[j] = a
           /\ \A j, k \in 1..Len(applications) :
                  applications[j].id = applications[k].id => j = k
           /\ a.id >= generateId(converted.firstId)
           /\ a.status = "Applied"
           /\ a.applicationDate = today
           /\ a.position = o.position
           /\ a.company = o.company
           /\ a.link = o.link
           /\ a.salary = (IF "salary" \in DOMAIN o THEN o.salary ELSE "")
           /\ Len(a.timeline) = 1
           /\ a.timeline[1].type = "application_submitted"
           /\ a.timeline[1].status = "completed"
           /\ a.timeline[1].date = today

C15_Witness ==
    /\ converted.done
    /\ converted.from.id = "o1"
    /\ "salary" \in DOMAIN converted.from
    /\ Len(applications) = 2
    /\ applications[2] = converted.to
    /\ converted.to.salary = "100k"

\* the line a field of the opportunity is folded into
infoLine(k, v) ==
    CASE k = "location" -> "Location: " \o v
      [] k = "jobType" -> "Type: " \o v
      [] k = "postedDate" -> "Posted: " \o v

InfoValues == {"Remote", "Full-time", "2024-01-15"}

\* C16: the notes of the converted application are the description, if any,
\* followed by the appended lines; each of location, jobType and postedDate
\* that the opportunity has is one of these lines, and a field it does not
\* have is none of them.
C16_EveryPresentFieldIsALine ==
    converted.done =>
        LET o == converted.from
            a == converted.to
            appended == converted.appended
            lines == {appended[i] : i \in 1..Len(appended)}
        IN /\ \A k \in {"location", "jobType", "postedDate"} :
                  IF k \in DOMAIN o
                  THEN infoLine(k, o[k]) \in lines
                  ELSE \A v \in InfoValues : infoLine(k, v) \notin lines
           /\ a.notes = (IF "description" \in DOMAIN o
                         THEN IF appended = << >> THEN o.description
                              ELSE o.description \o "\n\n" \o joinNewline(appended)
                         ELSE joinNewline(appended))

\* the stored collections
storedApplications == IF appStore.kind = "json" THEN appStore.value ELSE << >>
storedOpportunities == IF oppStore.kind = "json" THEN oppStore.value ELSE << >>

\* C17: every captured job the user has not discarded is in storage as an
\* opportunity, as an application, or as both.
C17_JobNeverLost ==
    \A link \in jobs :
        \/ \E i \in 1..Len(storedOpportunities) : storedOpportunities[i].link = link
        \/ \E i \in 1..Len(storedApplications) : storedApplications[i].link = link

-----------------------------------------------------------------------------
(* Properties of the kanban view (SpecKanban) *)

\* the application is shown in the group named key
inGroup(app, key) ==
    \E g \in 1..Len(grouped) : grouped[g].status = key /\ member(grouped[g].items, app)

\* the label of an event: its customTypeName when its type is "custom",
\* otherwise its type
eventLabel(event) ==
    IF event.type = "custom" THEN event.customTypeName ELSE interviewTypeLabel(event.type)

\* the events of an application that are scheduled or pending and dated on
\* the day the board was computed or later
upcoming(app) ==
    {i \in 1..Len(app.timeline) :
        /\ app.timeline[i].status \in {"scheduled", "pending"}
        /\ parseLocalDate(app.timeline[i].date) >= parseLocalDate(renderedAt.date)}

completedOf(app) ==
    {i \in 1..Len(app.timeline) : app.timeline[i].status = "completed"}

\* C18: an "Interviewing" application with a scheduled or pending event dated
\* today or later is grouped under the label of the earliest such event; an
\* event dated today counts.
C18_EarliestUpcomingEvent ==
    \A c \in 1..Len(cards) :
        LET app == cards[c]
        IN (app.status = "Interviewing" /\ Len(app.timeline) > 0 /\ upcoming(app) # {}) =>
               \E i \in upcoming(app) :
                   /\ \A j \in upcoming(app) :
                          parseLocalDate(app.timeline[i].date) <= parseLocalDate(app.timeline[j].date)
                   /\ inGroup(app, T_InterviewingDash \o eventLabel(app.timeline[i]))

\* C19: an "Interviewing" application without a scheduled or pending event
\* dated today or later is grouped under the label of its most recent
\* completed event, and under plain "Interviewing" when it has none.
C19_MostRecentCompletedEvent ==
    \A c \in 1..Len(cards) :
        LET app == cards[c]
        IN (app.status = "Interviewing" /\ upcoming(app) = {}) =>
               IF completedOf(app) # {}
               THEN \E i \in completedOf(app) :
                        /\ \A j \in completedOf(app) :
                               parseLocalDate(app.timeline[i].date)
                                   >= parseLocalDate(app.timeline[j].date)
                        /\ inGroup(app, T_InterviewingDash \o eventLabel(app.timeline[i]))
               ELSE inGroup(app, chars("Interviewing"))

C19_Witness ==
    /\ Len(cards) = 3
    /\ \E c \in 1..Len(cards) :
           /\ cards[c].id = "k3"
           /\ inGroup(cards[c], T_InterviewingDash \o interviewTypeLabel("first_contact"))
    /\ \E c \in 1..Len(cards) :
           /\ cards[c].id = "k6"
           /\ inGroup(cards[c], T_InterviewingDash \o interviewTypeLabel("code_challenge"))
    /\ \E c \in 1..Len(cards) : cards[c].id = "k2" /\ inGroup(cards[c], chars("Interviewing"))

\* the place of a group: the canonical statuses in their order, the
\* "Interviewing - X" groups right after "Interviewing", every other status last
groupClass(key) ==
    CASE key = chars("Applied") -> 1
      [] key = chars("Interviewing") -> 2
      [] startsWith(key, T_InterviewingDash) -> 3
      [] key = chars("Offer") -> 4
      [] key = chars("Rejected") -> 5
      [] key = chars("Withdrawn") -> 6
      [] key = chars("Hold") -> 7
      [] OTHER -> 8

comesBefore(a, b) ==
    \/ groupClass(a) < groupClass(b)
    \/ /\ groupClass(a) = groupClass(b)
       /\ groupClass(a) \in {3, 8}
       /\ compareNums(unitKey(a), unitKey(b)) < 0

groupsOf(app) == {g \in 1..Len(grouped) : member(grouped[g].items, app)}

RECURSIVE totalCards(_)
totalCards(groups) ==
    IF groups = << >> THEN 0 ELSE Len(Head(groups).items) + totalCards(Tail(groups))

\* C30: the groups partition the application list: every application is in
\* exactly one group, no group is empty, and the groups hold as many cards as
\* there are applications.
C30_GroupsPartition ==
    /\ \A c \in 1..Len(cards) : Cardinality(groupsOf(cards[c])) = 1
    /\ \A g \in 1..Len(grouped) : Len(grouped[g].items) > 0
    /\ totalCards(grouped) = Len(cards)

C30_Witness ==
    /\ Len(cards) = 3
    /\ Len(grouped) = 2
    /\ \E g \in 1..Len(grouped) :
          /\ Len(grouped[g].items) = 2
          /\ startsWith(grouped[g].status, T_InterviewingDash)

-----------------------------------------------------------------------------
(* The settings page over a store an earlier session left with few fields enabled *)

\* what earlier sessions saved after switching fields off
SavedPreferences ==
    { [DEFAULT_PREFERENCES EXCEPT !.enabledFields = e] :
        e \in { <<"position">>, <<"position", "notes">>, <<"notes", "followUpDate">> } }

InitReload ==
    /\ prefStore \in { savePreferences(p) : p \in SavedPreferences }
    /\ preferences = DEFAULT_PREFERENCES
    /\ editingCustomField = "none"
    /\ ops = 0
    /\ nextId = 1
    /\ today = "2024-03-01"
    /\ storeIdle
    /\ recIdle
    /\ readIdle
    /\ viewIdle
    /\ pageIdle

SpecReload == InitReload /\ [][NextSettings]_vars

\* C29: the preferences the settings page holds survive a reload: saving them
\* and reading them back returns the value that was saved.
C29_SavedPreferencesSurviveReload ==
    getPreferences(savePreferences(preferences)).value = preferences

-----------------------------------------------------------------------------
(* Timers of the components: time, setTimeout / setInterval, clearing *)

\* the delay of the search debounce (FiltersBar.tsx)
DebounceMs == 300

\* time advances in steps of a third of the debounce delay
StepMs == DebounceMs \div 3

\* no timer is due: a timer that is due runs before later input is handled
noneDue == \A i \in 1..Len(pendingTimers) : pendingTimers[i].due > nowMs

\* clearTimeout / clearInterval of the timers of one kind of one component
clearKind(pending, owner, kind) ==
    LET kept(tm) == ~(tm.owner = owner /\ tm.kind = kind)
    IN SelectSeq(pending, kept)

\* the callback of a timer runs: it is recorded when its component is gone
ranCallback(tm) ==
    IF mounted[tm.owner] THEN afterUnmount ELSE afterUnmount \cup {tm.kind}

\* time passes, up to a horizon of so many steps
Advance(horizon) ==
    /\ nowMs < horizon * StepMs
    /\ noneDue
    /\ nowMs' = nowMs + StepMs
    /\ UNCHANGED <<mounted, pendingTimers, afterUnmount, barVars, sheetVars, pollVars,
                   atsVars, captchaVars>>
    /\ UNCHANGED <<storeVars, clockVars, recVars, prefVars, readVars, viewVars, applyVars,
                   kanbanVars>>

-----------------------------------------------------------------------------
(* src/components/FiltersBar.tsx: the search input, its sync and debounce effects *)

BarTicks == 8

SearchTerms == { << >>, <<"j">>, <<"j", "a">> }

\* (the effect starts its timer and leaves the earlier one running)
debounceWithoutCleanup(pending, term, t) ==
    pending \o << [owner |-> "FiltersBar", kind |-> "debounce", due |-> t + DebounceMs,
                   term |-> term] >>

\* the debounce effect re-runs: the cleanup of the previous run clears its
\* timer, then setTimeout(.., 300) captures the current searchTerm
debounceEffect(pending, term, t) ==
    clearKind(pending, "FiltersBar", "debounce")
        \o << [owner |-> "FiltersBar", kind |-> "debounce", due |-> t + DebounceMs,
               term |-> term] >>

\* the sync effect after the first render: what searchTerm and the ref become
syncEffect(search, last, term) ==
    IF search # last /\ search # term
    THEN [searchTerm |-> search, last |-> search]
    ELSE [searchTerm |-> term, last |-> last]

\* searchTerm changed at this moment: the history of the current burst
changedTo(term) ==
    [any |-> TRUE, at |-> nowMs, term |-> term,
     burst |-> IF lastChange.any /\ nowMs - lastChange.at < DebounceMs
               THEN lastChange.burst + 1 ELSE 1]

barFrame ==
    UNCHANGED <<storeVars, clockVars, recVars, prefVars, readVars, applyVars, kanbanVars,
                applications, availableStatuses, availablePlatforms, sheetVars, pollVars,
                atsVars, captchaVars>>

\* the state right after FiltersBar has mounted over the filters of the page:
\* the sync effect ran first (isMountedRef.current = true), so the debounce
\* effect of the first render already started a timer
InitBar ==
    /\ filters \in { [defaultFilters EXCEPT !.search = term] : term \in {<< >>, <<"j">>} }
    /\ applications = << >>
    /\ filtered = << >>
    /\ availableStatuses = << >>
    /\ availablePlatforms = << >>
    /\ mounted = [c \in Components |-> c = "FiltersBar"]
    /\ nowMs = 0
    /\ searchTerm = filters.search
    /\ lastSearchFromProps = filters.search
    /\ pendingTimers = debounceEffect(<< >>, filters.search, 0)
    /\ afterUnmount = {}
    /\ lastChange = [any |-> FALSE, at |-> 0, term |-> << >>, burst |-> 0]
    /\ lastCall = [count |-> 0, at |-> 0, search |-> << >>]
    /\ cleared = FALSE
    /\ sheetIdle
    /\ pollIdle
    /\ atsIdle
    /\ captchaIdle
    /\ nextId = 1
    /\ today = "2024-03-01"
    /\ storeIdle
    /\ recIdle
    /\ prefIdle
    /\ readIdle
    /\ applyIdle
    /\ kanbanIdle

\* onChange of the search input: setSearchTerm(e.target.value), then both
\* effects of the render (and of the render the sync effect may cause); the
\* user changes the text at most once per step of time
Type(term) ==
    /\ mounted["FiltersBar"]
    /\ noneDue
    /\ term # searchTerm
    /\ lastChange.any => lastChange.at < nowMs
    /\ LET synced == syncEffect(filters.search, lastSearchFromProps, term)
       IN /\ searchTerm' = synced.searchTerm
          /\ lastSearchFromProps' = synced.last
          /\ pendingTimers' = debounceEffect(pendingTimers, synced.searchTerm, nowMs)
          /\ lastChange' = changedTo(synced.searchTerm)
    /\ lastCall' = [lastCall EXCEPT !.count = 0]
    /\ cleared' = FALSE
    /\ UNCHANGED <<filters, filtered, mounted, nowMs, afterUnmount>>
    /\ barFrame

\* the debounce timer fires: onFiltersChange({...filters, search}) reaches
\* handleFiltersChange of the page, then the ref is set; the render that
\* follows finds filters.search equal to the ref
FireDebounce(i) ==
    /\ i \in 1..Len(pendingTimers)
    /\ pendingTimers[i].kind = "debounce"
    /\ pendingTimers[i].due <= nowMs
    /\ filters' = [filters EXCEPT !.search = pendingTimers[i].term]
    /\ filtered' = filteredApplications(applications, filters')
    /\ lastSearchFromProps' = pendingTimers[i].term
    /\ pendingTimers' = removeAt(pendingTimers, i)
    /\ afterUnmount' = ranCallback(pendingTimers[i])
    /\ lastCall' = [count |-> lastCall.count + 1, at |-> nowMs,
                    search |-> pendingTimers[i].term]
    /\ UNCHANGED <<searchTerm, lastChange, cleared, mounted, nowMs>>
    /\ barFrame

\* the Clear button: onClear is handleClearFilters of the page; when
\* filters.search changes by it the sync effect runs, and the debounce effect
\* after it when the sync effect changed searchTerm
ClearPressed ==
    /\ mounted["FiltersBar"]
    /\ noneDue
    /\ filters' = defaultFilters
    /\ filtered' = filteredApplications(applications, defaultFilters)
    /\ LET synced == IF filters.search # defaultFilters.search
                     THEN syncEffect(defaultFilters.search, lastSearchFromProps, searchTerm)
                     ELSE [searchTerm |-> searchTerm, last |-> lastSearchFromProps]
       IN /\ searchTerm' = synced.searchTerm
          /\ lastSearchFromProps' = synced.last
          /\ IF synced.searchTerm # searchTerm
             THEN /\ pendingTimers' = debounceEffect(pendingTimers, synced.searchTerm, nowMs)
                  /\ lastChange' = changedTo(synced.searchTerm)
                  /\ lastCall' = [lastCall EXCEPT !.count = 0]
             ELSE UNCHANGED <<pendingTimers, lastChange, lastCall>>
    /\ cleared' = TRUE
    /\ UNCHANGED <<mounted, nowMs, afterUnmount>>
    /\ barFrame

NextBar ==
    \/ \E term \in SearchTerms : Type(term)
    \/ \E i \in 1..Len(pendingTimers) : FireDebounce(i)
    \/ ClearPressed
    \/ Advance(BarTicks)

SpecBar == InitBar /\ [][NextBar]_vars

\* C22: the calls of the debounce follow the bursts of changes of searchTerm:
\* within 300 ms of the last change there has been no call since it, after
\* 300 ms there has been exactly one, made 300 ms after the last change and
\* carrying the term of that change.
C22_OneCallPerBurst ==
    lastChange.any =>
        /\ lastCall.count <= 1
        /\ nowMs < lastChange.at + DebounceMs => lastCall.count = 0
        /\ nowMs > lastChange.at + DebounceMs => lastCall.count = 1
        /\ lastCall.count = 1 =>
              /\ lastCall.at = lastChange.at + DebounceMs
              /\ lastCall.search = lastChange.term
              /\ filters.search = lastChange.term

C22_Witness ==
    /\ lastChange.burst = 3
    /\ lastChange.term = <<"j", "a">>
    /\ lastCall.count = 1
    /\ filters.search = <<"j", "a">>

\* C27 as stated: from Clear until the next input of the user the filters have
\* their default values.
C27_ClearedFiltersStayDefault ==
    cleared => filters = defaultFilters

-----------------------------------------------------------------------------
(* src/components/GoogleSheetsSync.tsx: create / select / sync, with the user logged in *)

StatusMs == 1000
AutoSyncMs == 1000
SheetTicks == 11
MaxRequests == 2

\* setInterval: the timer is due again one period later
rearm(tm) == [tm EXCEPT !.due = @ + tm.period]

\* the effect of the component: setInterval(updateStatus, 1000)
statusInterval(t) ==
    [owner |-> "GoogleSheetsSync", kind |-> "status", due |-> t + StatusMs,
     period |-> StatusMs]

\* setTimeout(() => handleSync(), 1000) after a spreadsheet was created or selected
autoSyncTimer(t) ==
    [owner |-> "GoogleSheetsSync", kind |-> "autosync", due |-> t + AutoSyncMs]

isLoading(sh) == sh.isCreatingSheet \/ sh.isSyncing \/ sh.isSettingSheet

\* handleSync() up to its await: without a stored spreadsheet id it only
\* shows an error; overlapped records a start while a sync was in flight
handleSync(sh) ==
    IF ~sh.hasSpreadsheet THEN sh
    ELSE [sh EXCEPT !.isSyncing = TRUE, !.syncs = @ + 1,
                    !.overlapped = @ \/ sh.syncs > 0]

sheetFrame ==
    UNCHANGED <<storeVars, clockVars, recVars, prefVars, readVars, viewVars, applyVars,
                kanbanVars, barVars, pollVars, atsVars, captchaVars>>

InitSheets ==
    /\ mounted = [c \in Components |-> c = "GoogleSheetsSync"]
    /\ nowMs = 0
    /\ pendingTimers = << statusInterval(0) >>
    /\ afterUnmount = {}
    /\ \E stored \in BOOLEAN :
          sheets = [isCreatingSheet |-> FALSE, isSyncing |-> FALSE, isSettingSheet |-> FALSE,
                    showSelectSheet |-> FALSE, hasSpreadsheet |-> stored,
                    creates |-> 0, selects |-> 0, syncs |-> 0, overlapped |-> FALSE]
    /\ barIdle
    /\ pollIdle
    /\ atsIdle
    /\ captchaIdle
    /\ nextId = 1
    /\ today = "2024-03-01"
    /\ storeIdle
    /\ recIdle
    /\ prefIdle
    /\ readIdle
    /\ viewIdle
    /\ applyIdle
    /\ kanbanIdle

\* the create and select requests under way, with their timers, are bounded
requestsLeft ==
    LET autoSync(tm) == tm.kind = "autosync"
    IN Len(SelectSeq(pendingTimers, autoSync)) + sheets.creates + sheets.selects < MaxRequests

\* handleCreateSheet() up to its await; the button shows without a
\* spreadsheet and is disabled while isLoading
CreateSheet ==
    /\ mounted["GoogleSheetsSync"]
    /\ noneDue
    /\ requestsLeft
    /\ ~sheets.hasSpreadsheet
    /\ ~isLoading(sheets)
    /\ sheets' = [sheets EXCEPT !.isCreatingSheet = TRUE, !.creates = @ + 1]
    /\ UNCHANGED <<mounted, nowMs, pendingTimers, afterUnmount>>
    /\ sheetFrame

\* createSpreadsheet(..) settles: on success the id is stored and the
\* auto-sync timer is started; finally setIsCreatingSheet(false)
CreateSettles(ok) ==
    /\ sheets.creates > 0
    /\ noneDue
    /\ sheets' = [sheets EXCEPT !.isCreatingSheet = FALSE, !.creates = @ - 1,
                                !.hasSpreadsheet = @ \/ ok]
    /\ pendingTimers' = IF ok THEN Append(pendingTimers, autoSyncTimer(nowMs))
                        ELSE pendingTimers
    /\ UNCHANGED <<mounted, nowMs, afterUnmount>>
    /\ sheetFrame

\* "Select existing" (disabled while isLoading) or "Change sheet"
ShowSelect ==
    /\ mounted["GoogleSheetsSync"]
    /\ noneDue
    /\ ~sheets.showSelectSheet
    /\ sheets.hasSpreadsheet \/ ~isLoading(sheets)
    /\ sheets' = [sheets EXCEPT !.showSelectSheet = TRUE]
    /\ UNCHANGED <<mounted, nowMs, pendingTimers, afterUnmount>>
    /\ sheetFrame

\* handleSelectExistingSheet() up to its await, with an id typed in; its
\* button is disabled while isSettingSheet
SelectSheet ==
    /\ mounted["GoogleSheetsSync"]
    /\ noneDue
    /\ requestsLeft
    /\ sheets.showSelectSheet
    /\ ~sheets.isSettingSheet
    /\ sheets' = [sheets EXCEPT !.isSettingSheet = TRUE, !.selects = @ + 1]
    /\ UNCHANGED <<mounted, nowMs, pendingTimers, afterUnmount>>
    /\ sheetFrame

\* setSpreadsheetId(..) settles
SelectSettles(ok) ==
    /\ sheets.selects > 0
    /\ noneDue
    /\ sheets' = [sheets EXCEPT !.isSettingSheet = FALSE, !.selects = @ - 1,
                                !.hasSpreadsheet = @ \/ ok,
                                !.showSelectSheet = IF ok THEN FALSE ELSE @]
    /\ pendingTimers' = IF ok THEN Append(pendingTimers, autoSyncTimer(nowMs))
                        ELSE pendingTimers
    /\ UNCHANGED <<mounted, nowMs, afterUnmount>>
    /\ sheetFrame

\* the "Sync now" button: shown with a spreadsheet, disabled while isLoading
SyncNow ==
    /\ mounted["GoogleSheetsSync"]
    /\ noneDue
    /\ sheets.hasSpreadsheet
    /\ ~isLoading(sheets)
    /\ sheets' = handleSync(sheets)
    /\ UNCHANGED <<mounted, nowMs, pendingTimers, afterUnmount>>
    /\ sheetFrame

\* the auto-sync timer fires: handleSync()
FireAutoSync(i) ==
    /\ i \in 1..Len(pendingTimers)
    /\ pendingTimers[i].kind = "autosync"
    /\ pendingTimers[i].due <= nowMs
    /\ sheets' = handleSync(sheets)
    /\ pendingTimers' = removeAt(pendingTimers, i)
    /\ afterUnmount' = ranCallback(pendingTimers[i])
    /\ UNCHANGED <<mounted, nowMs>>
    /\ sheetFrame

\* syncToGoogleSheets(..) settles; finally setIsSyncing(false)
SyncSettles ==
    /\ sheets.syncs > 0
    /\ noneDue
    /\ sheets' = [sheets EXCEPT !.isSyncing = FALSE, !.syncs = @ - 1]
    /\ UNCHANGED <<mounted, nowMs, pendingTimers, afterUnmount>>
    /\ sheetFrame

\* the status interval fires: updateStatus() re-reads the login and sync status
FireStatus(i) ==
    /\ i \in 1..Len(pendingTimers)
    /\ pendingTimers[i].kind = "status"
    /\ pendingTimers[i].due <= nowMs
    /\ pendingTimers' = [pendingTimers EXCEPT ![i] = rearm(@)]
    /\ afterUnmount' = ranCallback(pendingTimers[i])
    /\ UNCHANGED <<mounted, nowMs, sheets>>
    /\ sheetFrame

SheetSteps ==
    \/ CreateSheet
    \/ \E ok \in BOOLEAN : CreateSettles(ok)
    \/ ShowSelect
    \/ SelectSheet
    \/ \E ok \in BOOLEAN : SelectSettles(ok)
    \/ SyncNow
    \/ \E i \in 1..Len(pendingTimers) : FireAutoSync(i)
    \/ SyncSettles
    \/ \E i \in 1..Len(pendingTimers) : FireStatus(i)

NextSheets == SheetSteps \/ Advance(SheetTicks)

SpecSheets == InitSheets /\ [][NextSheets]_vars

\* C28 as stated: at most one sync is in flight, and handleSync never starts
\* a sync while an earlier one has not finished.
C28_OneSyncInFlight ==
    /\ sheets.syncs <= 1
    /\ ~sheets.overlapped

-----------------------------------------------------------------------------
(* src/components/Sidebar.tsx, OpportunitiesPageContent: polling of the opportunities *)

PollMs == 2000
PollTicks == 41

\* (an interval that is one step of time slower)
pollIntervalSlow(owner, t) ==
    [owner |-> owner, kind |-> "poll", due |-> t + PollMs + StepMs, period |-> PollMs + StepMs]

\* setInterval(refreshOpportunities, 2000) of the effect of the component
pollInterval(owner, t) ==
    [owner |-> owner, kind |-> "poll", due |-> t + PollMs, period |-> PollMs]

\* refreshOpportunities() / loadOpportunities() of the opportunities store
refreshOpportunities(store) == getOpportunities(store).value

\* what the extension leaves under the jobOpportunities key
ExtensionStores ==
    { saveOpportunities(<< >>),
      saveOpportunities(<< opportunity("o1", "Referred by Jane") >>),
      saveOpportunities(<< opportunity("o1", "<img onerror=x>"),
                           opportunity("o2", "Referred by Jane") >>) }

Pollers == {"Sidebar", "OpportunitiesPage"}

pollFrame ==
    UNCHANGED <<storeVars, clockVars, recVars, prefVars, readOp, readResult, viewVars,
                applyPc, applying, converted, jobs, kanbanVars, barVars, sheetVars, atsVars,
                captchaVars>>

\* the Sidebar, the Opportunities page, or both have just mounted:
\* loadOpportunities() has run and each has started its interval
InitPoll ==
    /\ \E shown \in (SUBSET Pollers) \ {{}} :
          /\ mounted = [c \in Components |-> c \in shown]
          /\ pendingTimers \in { << pollInterval("Sidebar", 0) >>,
                                 << pollInterval("OpportunitiesPage", 0) >>,
                                 << pollInterval("Sidebar", 0),
                                    pollInterval("OpportunitiesPage", 0) >> }
          /\ \A c \in Pollers :
                c \in shown <=> \E i \in 1..Len(pendingTimers) : pendingTimers[i].owner = c
    /\ nowMs = 0
    /\ afterUnmount = {}
    /\ oppStore \in {[kind |-> "absent"]} \cup ExtensionStores
    /\ opportunities = refreshOpportunities(oppStore)
    /\ lastWrite = [any |-> FALSE, at |-> 0, notified |-> FALSE]
    /\ readOp = "none"
    /\ readResult = [threw |-> FALSE, value |-> << >>]
    /\ applyPc = "idle"
    /\ applying = [id |-> "none"]
    /\ converted = [done |-> FALSE]
    /\ jobs = {}
    /\ barIdle
    /\ sheetIdle
    /\ atsIdle
    /\ captchaIdle
    /\ nextId = 1
    /\ today = "2024-03-01"
    /\ storeIdle
    /\ recIdle
    /\ prefIdle
    /\ viewIdle
    /\ kanbanIdle

\* the extension writes the key; a storage event or the custom
\* jobOpportunitiesUpdated event may or may not reach a mounted listener
ExtensionWrites(store, notified) ==
    /\ noneDue
    /\ store # oppStore
    /\ notified => \E c \in Pollers : mounted[c]
    /\ oppStore' = store
    /\ opportunities' = IF notified THEN refreshOpportunities(store) ELSE opportunities
    /\ lastWrite' = [any |-> TRUE, at |-> nowMs, notified |-> notified]
    /\ UNCHANGED <<mounted, nowMs, pendingTimers, afterUnmount>>
    /\ pollFrame

\* the interval fires: refreshOpportunities()
FirePoll(i) ==
    /\ i \in 1..Len(pendingTimers)
    /\ pendingTimers[i].kind = "poll"
    /\ pendingTimers[i].due <= nowMs
    /\ opportunities' = refreshOpportunities(oppStore)
    /\ pendingTimers' = [pendingTimers EXCEPT ![i] = rearm(@)]
    /\ afterUnmount' = ranCallback(pendingTimers[i])
    /\ UNCHANGED <<mounted, nowMs, oppStore, lastWrite>>
    /\ pollFrame

PollSteps ==
    \/ \E store \in ExtensionStores, notified \in BOOLEAN : ExtensionWrites(store, notified)
    \/ \E i \in 1..Len(pendingTimers) : FirePoll(i)

NextPoll == PollSteps \/ Advance(PollTicks)

SpecPoll == InitPoll /\ [][NextPoll]_vars

\* C23: while the Sidebar or the Opportunities page is mounted, one polling
\* interval after an out-of-band write of jobOpportunities (once the timers
\* due at that moment have run) the list in memory is what the key holds.
C23_WriteSeenWithinOneInterval ==
    (/\ lastWrite.any
     /\ \E c \in Pollers : mounted[c]
     /\ \/ nowMs > lastWrite.at + PollMs
        \/ nowMs = lastWrite.at + PollMs /\ noneDue)
        => opportunities = getOpportunities(oppStore).value

C23_Witness ==
    /\ lastWrite.any
    /\ ~lastWrite.notified
    /\ lastWrite.at = PollMs + StepMs
    /\ nowMs = 2 * PollMs
    /\ noneDue
    /\ Len(opportunities) = 2
    /\ opportunities = getOpportunities(oppStore).value

-----------------------------------------------------------------------------
(* src/components/ATSSearch.tsx: Search All *)

StaggerMs == 300

ATS_PLATFORMS ==
    << "ashby", "teamtailor", "workday", "greenhouse", "lever", "icims", "workable" >>

\* ATS_PLATFORMS.forEach((platform, index) => setTimeout(.., index * 300))
searchAllTimers(t) ==
    [n \in 1..Len(ATS_PLATFORMS) |->
        [owner |-> "ATSSearch", kind |-> "search", due |-> t + (n - 1) * StaggerMs,
         platform |-> ATS_PLATFORMS[n]]]

atsFrame ==
    UNCHANGED <<storeVars, clockVars, recVars, prefVars, readVars, viewVars, applyVars,
                kanbanVars, barVars, sheetVars, pollVars, captchaVars>>

\* handleSearchAll(), when the searches of an earlier click have all opened
SearchAll ==
    /\ mounted["ATSSearch"]
    /\ noneDue
    /\ \A i \in 1..Len(pendingTimers) : pendingTimers[i].kind # "search"
    /\ pendingTimers' = pendingTimers \o searchAllTimers(nowMs)
    /\ UNCHANGED <<mounted, nowMs, afterUnmount, windowsOpened>>
    /\ atsFrame

\* one staggered timer fires: handleSearch(platform.url) opens a window
FireSearch(i) ==
    /\ i \in 1..Len(pendingTimers)
    /\ pendingTimers[i].kind = "search"
    /\ pendingTimers[i].due <= nowMs
    /\ windowsOpened' = windowsOpened + 1
    /\ pendingTimers' = removeAt(pendingTimers, i)
    /\ afterUnmount' = ranCallback(pendingTimers[i])
    /\ UNCHANGED <<mounted, nowMs>>
    /\ atsFrame

-----------------------------------------------------------------------------
(* Mounting and tearing down the components that start timers *)

TeardownTicks == 21

\* the timers the effects of a component start when it mounts
mountTimers(c, search, t) ==
    CASE c = "FiltersBar" -> debounceEffect(<< >>, search, t)
      [] c \in Pollers -> << pollInterval(c, t) >>
      [] c = "GoogleSheetsSync" -> << statusInterval(t) >>
      [] OTHER -> << >>

\* the cleanup functions of the effects of a component: the debounce effect
\* clears its timeout, the polling and status effects clear their interval;
\* nothing clears the auto-sync timeout or the Search All timeouts
cleanup(c, pending) ==
    CASE c = "FiltersBar" -> clearKind(pending, c, "debounce")
      [] c \in Pollers -> clearKind(pending, c, "poll")
      [] c = "GoogleSheetsSync" -> clearKind(pending, c, "status")
      [] OTHER -> pending

InitTeardown ==
    /\ filters = defaultFilters
    /\ applications = << >>
    /\ filtered = << >>
    /\ availableStatuses = << >>
    /\ availablePlatforms = << >>
    /\ oppStore = saveOpportunities(<< opportunity("o1", "Referred by Jane") >>)
    /\ opportunities = << >>
    /\ readOp = "none"
    /\ readResult = [threw |-> FALSE, value |-> << >>]
    /\ applyPc = "idle"
    /\ applying = [id |-> "none"]
    /\ converted = [done |-> FALSE]
    /\ jobs = {}
    /\ compIdle
    /\ nextId = 1
    /\ today = "2024-03-01"
    /\ storeIdle
    /\ recIdle
    /\ prefIdle
    /\ kanbanIdle

\* one component is mounted, at the start, and its effects run
Mount(c) ==
    /\ nowMs = 0
    /\ \A d \in Components : ~mounted[d]
    /\ pendingTimers = << >>
    /\ afterUnmount = {}
    /\ sheets.creates + sheets.selects + sheets.syncs = 0
    /\ mounted' = [mounted EXCEPT ![c] = TRUE]
    /\ pendingTimers' = mountTimers(c, filters.search, nowMs)
    /\ searchTerm' = IF c = "FiltersBar" THEN filters.search ELSE searchTerm
    /\ lastSearchFromProps' = IF c = "FiltersBar" THEN filters.search ELSE lastSearchFromProps
    /\ opportunities' = IF c \in Pollers THEN refreshOpportunities(oppStore) ELSE opportunities
    /\ UNCHANGED <<nowMs, afterUnmount, lastChange, lastCall, cleared, sheetVars, pollVars,
                   atsVars, captchaVars>>
    /\ UNCHANGED <<storeVars, clockVars, recVars, prefVars, readVars, viewVars, applyPc,
                   applying, converted, jobs, kanbanVars>>

\* the component is torn down: its cleanup functions run, its state is gone
Unmount(c) ==
    /\ mounted[c]
    /\ noneDue
    /\ mounted' = [mounted EXCEPT ![c] = FALSE]
    /\ pendingTimers' = cleanup(c, pendingTimers)
    /\ searchTerm' = IF c = "FiltersBar" THEN << >> ELSE searchTerm
    /\ lastSearchFromProps' = IF c = "FiltersBar" THEN << >> ELSE lastSearchFromProps
    /\ UNCHANGED <<nowMs, afterUnmount, lastChange, lastCall, cleared, sheetVars, pollVars,
                   atsVars, captchaVars>>
    /\ UNCHANGED <<storeVars, clockVars, recVars, prefVars, readVars, viewVars, applyVars,
                   kanbanVars>>

NextTeardown ==
    \/ \E c \in Components : Mount(c)
    \/ \E c \in Components : Unmount(c)
    \/ \E term \in {<<"j">>} : Type(term)
    \/ \E i \in 1..Len(pendingTimers) : FireDebounce(i)
    \/ \E i \in 1..Len(pendingTimers) : FirePoll(i)
    \/ SheetSteps
    \/ SearchAll
    \/ \E i \in 1..Len(pendingTimers) : FireSearch(i)
    \/ Advance(TeardownTicks)

SpecTeardown == InitTeardown /\ [][NextTeardown]_vars

\* C21 as stated: a component that is not mounted has no timer pending, and
\* no callback of a timer has run while its component was unmounted.
C21_NoTimerOutlivesItsComponent ==
    /\ \A i \in 1..Len(pendingTimers) : mounted[pendingTimers[i].owner]
    /\ afterUnmount = {}

-----------------------------------------------------------------------------
(* captcha.php and suggestions.php: the captchas of one session *)

CaptchaTtl == 300
MaxCaptchas == 2
MaxPosts == 3
MaxClock == 3

\* time() moves in steps of half the life of a captcha, plus one second
ClockStep == CaptchaTtl \div 2 + 1

Answers == {"12345", "54321"}

\* captcha.php: the expired captchas are purged from the session
purgeExpired(caps, now) ==
    restrict(caps, {id \in DOMAIN caps : ~(caps[id].expiresAt < now)})

\* captcha.php: a new captcha is stored with five minutes to live
issueCaptcha(caps, id, answer, now) ==
    (id :> [answer |-> answer, expiresAt |-> now + CaptchaTtl]) @@ purgeExpired(caps, now)

unset(caps, id) == restrict(caps, DOMAIN caps \ {id})

\* suggestions.php up to the database: the outcome and the session afterwards
validate(caps, payload, now) ==
    CASE payload.explanation = "" -> [outcome |-> "explanation", captchas |-> caps]
      [] payload.captchaId = 0 \/ payload.captchaAnswer = "" ->
            [outcome |-> "missing", captchas |-> caps]
      [] payload.captchaId \notin DOMAIN caps -> [outcome |-> "invalid", captchas |-> caps]
      [] caps[payload.captchaId].expiresAt < now ->
            [outcome |-> "expired", captchas |-> unset(caps, payload.captchaId)]
      [] payload.captchaAnswer # caps[payload.captchaId].answer ->
            [outcome |-> "incorrect", captchas |-> caps]
      [] OTHER -> [outcome |-> "accepted", captchas |-> unset(caps, payload.captchaId)]

\* the POST got as far as looking the captcha up and comparing
checks(outcome) == outcome \in {"expired", "incorrect", "accepted"}

captchaFrame ==
    UNCHANGED <<storeVars, clockVars, recVars, prefVars, readVars, viewVars, applyVars,
                kanbanVars, runVars, barVars, sheetVars, pollVars, atsVars>>

InitCaptcha ==
    /\ captchas = << >>
    /\ serverTime = 0
    /\ captchaLog = [issued |-> 0, posts |-> 0, checked |-> {},
                     last |-> [id |-> 0, outcome |-> "none", rechecked |-> FALSE]]
    /\ runIdle
    /\ barIdle
    /\ sheetIdle
    /\ pollIdle
    /\ atsIdle
    /\ nextId = 1
    /\ today = "2024-03-01"
    /\ storeIdle
    /\ recIdle
    /\ prefIdle
    /\ readIdle
    /\ viewIdle
    /\ applyIdle
    /\ kanbanIdle

\* GET captcha.php: random_bytes gives an id never issued before
GetCaptcha(answer) ==
    /\ captchaLog.issued < MaxCaptchas
    /\ captchas' = issueCaptcha(captchas, captchaLog.issued + 1, answer, serverTime)
    /\ captchaLog' = [captchaLog EXCEPT !.issued = @ + 1]
    /\ UNCHANGED serverTime
    /\ captchaFrame

\* POST suggestions.php with a JSON payload
PostSuggestion(payload) ==
    /\ captchaLog.posts < MaxPosts
    /\ LET r == validate(captchas, payload, serverTime)
       IN /\ captchas' = r.captchas
          /\ captchaLog' =
                [captchaLog EXCEPT
                    !.posts = @ + 1,
                    !.checked = IF checks(r.outcome) THEN @ \cup {payload.captchaId} ELSE @,
                    !.last = [id |-> payload.captchaId, outcome |-> r.outcome,
                              rechecked |-> payload.captchaId \in captchaLog.checked]]
    /\ UNCHANGED serverTime
    /\ captchaFrame

\* time passes on the server
ClockTicks ==
    /\ serverTime < MaxClock * ClockStep
    /\ serverTime' = serverTime + ClockStep
    /\ UNCHANGED <<captchas, captchaLog>>
    /\ captchaFrame

Payloads ==
    [explanation : {"", "text"}, captchaId : 0..MaxCaptchas, captchaAnswer : Answers \cup {""}]

NextCaptcha ==
    \/ \E answer \in Answers : GetCaptcha(answer)
    \/ \E payload \in Payloads : PostSuggestion(payload)
    \/ ClockTicks

SpecCaptcha == InitCaptcha /\ [][NextCaptcha]_vars

\* C24 as stated: a captcha that a POST has checked (right answer, wrong
\* answer, or expired) is no longer in the session, and no later POST naming
\* it is accepted.
C24_CaptchaCheckedOnce ==
    /\ \A id \in captchaLog.checked : id \notin DOMAIN captchas
    /\ captchaLog.last.rechecked => captchaLog.last.outcome # "accepted"

====
